---- MODULE Spec2Model ----
(***************************************************************************)
(* Model of the hierarchical state machine engine of airena/extern/hfsm.py *)
(* (symplehfsm 2.0.2.0): BaseState, Transition, Structure and SympleHFSM.  *)
(*                                                                         *)
(* State objects live in a heap: `nodes` is the sequence of the BaseState  *)
(* objects created so far, a node reference is an index into it (NoNode    *)
(* stands for Python's None).  State identifiers, events and handles are   *)
(* the caller's values.                                                    *)
(***************************************************************************)
EXTENDS Integers, Sequences, FiniteSets, TLC

\* ------------------------------------------------------------------------
\* Bounds of the model
\* ------------------------------------------------------------------------

\* number of add_state calls of a construction script
MaxNodes == 4

\* number of BaseState objects of a structure built call by call
MaxBuilt == 3

\* ------------------------------------------------------------------------
\* Values
\* ------------------------------------------------------------------------

\* Python's None, where a state identifier is expected
NoneId == "None"

\* Python's None, where a BaseState object is expected
NoNode == 0

\* Python's None, where a methodcaller (entry, exit, action, guard) is expected
NoHandle == <<>>

\* the empty dict
EmptyDict == [x \in {} |-> {}]

\* the state identifiers the construction scripts use, in the order of use
StateIds == <<"s1", "s2", "s3", "s4", "s5", "s6", "s7", "s8">>

\* the event the scripts define transitions for, and the machines are fed
Events == {"a"}

\* the state machine instances bound to the structure
Machines == {"m1", "m2"}

\* truth value of a state identifier (`if parent`, `if self.root`, `if name`)
Truthy(x) == x # NoneId /\ x # ""

\* the methodcallers a script passes, one per state and kind
EntryOf(id) == <<"entry", id>>
ExitOf(id) == <<"exit", id>>
ActionOf(id, ev) == <<"action", id, ev>>
GuardOf(id, ev) == <<"guard", id, ev>>

\* name of a BaseState: the identifier, or str(id(self)) for a false one
NameOf(id) == IF Truthy(id) THEN id ELSE "<anonymous>"

\* BaseState.__init__ followed by the assignments of add_state
NewState(id, entry, exit) ==
    [name |-> NameOf(id), parent |-> NoNode, children |-> <<>>,
     initial |-> NoNode, entry |-> entry, exit |-> exit, events |-> EmptyDict]

\* Transition.__init__
NewTransition(target, action, guard) ==
    [target |-> target, action |-> action, guard |-> guard]

\* ------------------------------------------------------------------------
\* BaseState
\* ------------------------------------------------------------------------

\* BaseState.add(child, initial) on the heap N: self and child are node
\* references.  The result is the new heap and the exception raised.
add(N, self, child, initial) ==
    IF N[child].parent # NoNode
    THEN [nodes |-> N, err |-> "ParentAlreadySetError"]
    ELSE IF initial /\ N[self].initial # NoNode
    THEN [nodes |-> N, err |-> "InitialStateAlreadySetError"]
    ELSE [nodes |-> [N EXCEPT ![self].initial = IF initial THEN child ELSE @,
                              ![self].children = Append(@, child),
                              ![child].parent = self],
          err |-> "ok"]

\* BaseState.is_child(parent_state): parent_state is one of self's ancestors
RECURSIVE ParentChain(_, _, _)
ParentChain(N, parent, parent_state) ==
    IF parent = NoNode THEN FALSE
    ELSE IF parent = parent_state THEN TRUE
    ELSE ParentChain(N, N[parent].parent, parent_state)

is_child(N, self, parent_state) == ParentChain(N, N[self].parent, parent_state)

\* a check that finds nothing
node_check_consistency_lax(N, self) == "ok"

\* a check of the node itself that does not go down to its children
node_check_consistency_shallow(N, self) ==
    IF N[self].initial = NoNode /\ Len(N[self].children) > 0
    THEN "InitialNotSetError"
    ELSE "ok"

\* BaseState.check_consistency(): the first exception of the depth-first
\* walk, "ok" when none is raised.  CheckFrom walks self.children from
\* position i on.
RECURSIVE node_check_consistency(_, _), CheckFrom(_, _, _)
node_check_consistency(N, self) ==
    IF N[self].initial = NoNode /\ Len(N[self].children) > 0
    THEN "InitialNotSetError"
    ELSE CheckFrom(N, self, 1)

CheckFrom(N, self, i) ==
    IF i > Len(N[self].children) THEN "ok"
    ELSE LET child == N[self].children[i] IN
         IF N[child].parent # self THEN "WrongParentError"
         ELSE LET r == node_check_consistency(N, child) IN
              IF r # "ok" THEN r ELSE CheckFrom(N, self, i + 1)

\* ------------------------------------------------------------------------
\* Structure: construction
\* ------------------------------------------------------------------------

\* Structure.__init__
EmptyStructure == [nodes |-> <<>>, states |-> EmptyDict, root |-> NoneId]

\* Structure.add_state on the structure S = [nodes, states, root]: the
\* structure after the call and the exception raised ("ok" for none).  The
\* new BaseState object is kept on the heap once something refers to it.
add_state(S, state_identifier, parent, initial, entry_action, exit_action) ==
    IF Truthy(parent) /\ parent \notin DOMAIN S.states
    THEN [S |-> S, err |-> "ParentUnkownError"]
    ELSE
    LET internal_state == Len(S.nodes) + 1
        heap == Append(S.nodes, NewState(state_identifier, entry_action, exit_action))
        added == add(heap, S.states[parent], internal_state, initial)
        \* the structure after the `if parent: ... else: ...` statement
        linked ==
            IF Truthy(parent)
            THEN [S |-> [S EXCEPT !.nodes = added.nodes], err |-> added.err]
            ELSE IF Truthy(S.root)
                 THEN [S |-> S, err |-> "RootAlreadySetOrParentMissingError"]
                 ELSE [S |-> [S EXCEPT !.root = state_identifier], err |-> "ok"]
    IN  IF linked.err # "ok" THEN [S |-> S, err |-> linked.err]
        ELSE IF state_identifier \in DOMAIN S.states
        THEN [S |-> linked.S, err |-> "StateIdentifierAlreadyUsed"]
        ELSE [S |-> [linked.S EXCEPT
                        !.nodes = IF Truthy(parent) THEN @ ELSE heap,
                        !.states = @ @@ (state_identifier :> internal_state)],
              err |-> "ok"]

\* add_trans that stores the transition before it looks for an earlier one
add_trans_storing_first(S, state, event, target, action, guard) ==
    IF state \notin DOMAIN S.states
    THEN [S |-> S, err |-> "StateUnknownError"]
    ELSE IF target # NoneId /\ target \notin DOMAIN S.states
    THEN [S |-> S, err |-> "StateUnknownError"]
    ELSE LET internal_state == S.states[state]
             transition == NewTransition(target, action, guard)
         IN  IF event \in DOMAIN S.nodes[internal_state].events
             THEN [S |-> [S EXCEPT !.nodes[internal_state].events[event] = transition],
                   err |-> "EventAlreadyDefinedError"]
             ELSE [S |-> [S EXCEPT !.nodes[internal_state].events =
                             @ @@ (event :> transition)],
                   err |-> "ok"]

\* Structure.add_trans
add_trans(S, state, event, target, action, guard) ==
    IF state \notin DOMAIN S.states
    THEN [S |-> S, err |-> "StateUnknownError"]
    ELSE IF target # NoneId /\ target \notin DOMAIN S.states
    THEN [S |-> S, err |-> "StateUnknownError"]
    ELSE LET internal_state == S.states[state] IN
         IF event \in DOMAIN S.nodes[internal_state].events
         THEN [S |-> S, err |-> "EventAlreadyDefinedError"]
         ELSE [S |-> [S EXCEPT !.nodes[internal_state].events =
                         @ @@ (event :> NewTransition(target, action, guard))],
               err |-> "ok"]

\* ------------------------------------------------------------------------
\* Structure: resolving an event
\* ------------------------------------------------------------------------

\* the handle put at the head of the list
InsertIfSet(methodcalls, h) ==
    IF h # NoHandle THEN <<h>> \o methodcalls ELSE methodcalls

\* methodcalls.append(h) under `if h:`
AppendIfSet(methodcalls, h) ==
    IF h # NoHandle THEN Append(methodcalls, h) ELSE methodcalls

\* the search that goes on to the highest node that defines the event
RECURSIVE FindOutermostHandler(_, _, _, _)
FindOutermostHandler(N, event, source_node, walked) ==
    IF /\ N[source_node].parent # NoNode
       /\ \/ event \notin DOMAIN N[source_node].events
          \/ \E a \in DOMAIN N : /\ is_child(N, source_node, a)
                                 /\ event \in DOMAIN N[a].events
    THEN FindOutermostHandler(N, event, N[source_node].parent,
                              Append(walked, source_node))
    ELSE IF event \in DOMAIN N[source_node].events
    THEN [found |-> TRUE, source_node |-> source_node, nodes |-> walked]
    ELSE [found |-> FALSE, source_node |-> source_node,
          nodes |-> Append(walked, source_node)]

\* the loop that looks for the event handling state: the handling node (or
\* the root when none handles the event) and the nodes passed over
RECURSIVE FindHandler(_, _, _, _)
FindHandler(N, event, source_node, walked) ==
    IF event \in DOMAIN N[source_node].events
    THEN [found |-> TRUE, source_node |-> source_node, nodes |-> walked]
    ELSE IF N[source_node].parent # NoNode
    THEN FindHandler(N, event, N[source_node].parent, Append(walked, source_node))
    ELSE [found |-> FALSE, source_node |-> source_node,
          nodes |-> Append(walked, source_node)]

\* `for node in nodes: if node.exit: methodcalls.append(node.exit)`
RECURSIVE ExitsOf(_, _, _, _)
ExitsOf(N, walked, i, methodcalls) ==
    IF i > Len(walked) THEN methodcalls
    ELSE ExitsOf(N, walked, i + 1, AppendIfSet(methodcalls, N[walked[i]].exit))

\* one step up from the handling state, whatever the target
WalkUpOnce(N, source_node, target_node, methodcalls) ==
    [err |-> "ok", source_node |-> N[source_node].parent,
     methodcalls |-> AppendIfSet(methodcalls, N[source_node].exit)]

\* `while not target_node.is_child(source_node)`: up from the handling state
\* to the first node that has the target below it, or is the target
RECURSIVE WalkUp(_, _, _, _)
WalkUp(N, source_node, target_node, methodcalls) ==
    IF source_node = NoNode
    THEN [err |-> "AttributeError", source_node |-> source_node,
          methodcalls |-> methodcalls]
    ELSE IF is_child(N, target_node, source_node) \/ source_node = target_node
    THEN [err |-> "ok", source_node |-> source_node, methodcalls |-> methodcalls]
    ELSE WalkUp(N, N[source_node].parent, target_node,
                AppendIfSet(methodcalls, N[source_node].exit))

\* the first child of source_node, in children order, that is the target or
\* has the target below it; 0 when the for loop ends without a break
RECURSIVE ChildTowards(_, _, _, _)
ChildTowards(N, source_node, target_node, i) ==
    IF i > Len(N[source_node].children) THEN 0
    ELSE LET child == N[source_node].children[i] IN
         IF child = target_node \/ is_child(N, target_node, child) THEN i
         ELSE ChildTowards(N, source_node, target_node, i + 1)

\* down to the target without entering the nodes
WalkDownSilent(N, source_node, target_node, methodcalls) ==
    [err |-> "ok", methodcalls |-> methodcalls]

\* `while source_node != target_node`: down to the target, entering the nodes
RECURSIVE WalkDown(_, _, _, _)
WalkDown(N, source_node, target_node, methodcalls) ==
    IF source_node = target_node
    THEN [err |-> "ok", methodcalls |-> methodcalls]
    ELSE IF source_node = NoNode
    THEN [err |-> "AttributeError", methodcalls |-> methodcalls]
    ELSE LET i == ChildTowards(N, source_node, target_node, 1) IN
         IF i = 0 THEN [err |-> "NoTermination", methodcalls |-> methodcalls]
         ELSE LET child == N[source_node].children[i] IN
              WalkDown(N, child, target_node, AppendIfSet(methodcalls, N[child].entry))

\* no descent: the target is where the walk ends
InitialEntriesShallow(N, target_node, methodcalls) ==
    [target_node |-> target_node, methodcalls |-> methodcalls]

\* "initial entries": down the initial links from the target to a node
\* without initial, entering every node passed
RECURSIVE InitialEntries(_, _, _)
InitialEntries(N, target_node, methodcalls) ==
    IF N[target_node].initial = NoNode
    THEN [target_node |-> target_node, methodcalls |-> methodcalls]
    ELSE LET next == N[target_node].initial IN
         InitialEntries(N, next, AppendIfSet(methodcalls, N[next].entry))

\* Structure._get_methodcallers(state_machine, event, current_state): the
\* tuple (guard, methodcalls, target_node) and the exception raised
_get_methodcallers(S, event, current_state) ==
    LET N == S.nodes
        h == FindHandler(N, event, current_state, <<>>)
    IN
    IF ~h.found
    THEN [err |-> "ok", guard |-> NoHandle, methodcalls |-> <<>>,
          target_node |-> current_state]
    ELSE
    LET transition == N[h.source_node].events[event]
        exits == ExitsOf(N, h.nodes, 1, <<>>)
        target_node == IF transition.target # NoneId
                       THEN S.states[transition.target] ELSE h.source_node
        \* go up the hierarchy as needed for the transition
        up == IF transition.target = NoneId
              THEN [err |-> "ok", source_node |-> h.source_node, methodcalls |-> exits]
              ELSE IF h.source_node # target_node
              THEN WalkUp(N, h.source_node, target_node, exits)
              ELSE [err |-> "ok", source_node |-> N[h.source_node].parent,
                    methodcalls |-> AppendIfSet(exits, N[h.source_node].exit)]
        acted == AppendIfSet(up.methodcalls, transition.action)
        \* find child node and go down the hierarchy until target_node is found
        down == IF transition.target # NoneId
                THEN WalkDown(N, up.source_node, target_node, acted)
                ELSE [err |-> "ok", methodcalls |-> acted]
        entered == InitialEntries(N, target_node, down.methodcalls)
    IN
    IF up.err # "ok"
    THEN [err |-> up.err, guard |-> NoHandle, methodcalls |-> <<>>,
          target_node |-> NoNode]
    ELSE IF down.err # "ok"
    THEN [err |-> down.err, guard |-> NoHandle, methodcalls |-> <<>>,
          target_node |-> NoNode]
    ELSE [err |-> "ok", guard |-> transition.guard,
          methodcalls |-> entered.methodcalls, target_node |-> entered.target_node]

\* ------------------------------------------------------------------------
\* State
\* ------------------------------------------------------------------------

VARIABLES
    \* the Structure shared by the machines
    nodes,                      \* heap of BaseState objects
    states,                     \* Structure.states: identifier -> node
    root,                       \* Structure.root: identifier of the root
    is_optimized,               \* Structure.is_optimized
    optimized,                  \* BaseState.optimized of every node
    structure_call,             \* the last call on the Structure and its end
    \* the SympleHFSM instances, each a function of the machine
    handle_event,               \* the method bound to self.handle_event
    _current_state,             \* node the machine is in, or NoNode
    _currently_handling_event,  \* the re-entrancy flag
    frame,                      \* locals of the handle_event call in progress
    captured_actions,           \* handles invoked since the last top-level call
    last,                       \* the last top-level call and how it ended
    init_called,                \* init() has been called on the machine
    exit_called                 \* exit() has returned on the machine

structure_vars == <<nodes, states, root, is_optimized, optimized, structure_call>>
machine_vars == <<handle_event, _current_state, _currently_handling_event,
                  frame, captured_actions, last, init_called, exit_called>>
vars == <<nodes, states, root, is_optimized, optimized, structure_call, handle_event,
          _current_state, _currently_handling_event, frame, captured_actions,
          last, init_called, exit_called>>

\* the structure as the operators above take it
Structure == [nodes |-> nodes, states |-> states, root |-> root]

\* ------------------------------------------------------------------------
\* Construction scripts: the structures the machines run on
\* ------------------------------------------------------------------------

\* A script adds MaxNodes states, the i-th under one of the two before it,
\* par[i].  A state is added as the initial one when its parent has none yet;
\* for the state `flip` it is the other way round (0: for no state).  Every state
\* gets an entry and an exit action, but the second no exit action and the
\* third no entry action.
RECURSIVE BuildStates(_, _, _, _)
BuildStates(S, i, par, flip) ==
    IF i > MaxNodes THEN S
    ELSE LET parent == IF i = 1 THEN NoneId ELSE StateIds[par[i]]
             first == parent \in DOMAIN S.states
                         /\ S.nodes[S.states[parent]].initial = NoNode
         IN  BuildStates(
                add_state(S, StateIds[i], parent,
                          IF i = 1 THEN FALSE ELSE (first # (i = flip)),
                          IF i = 3 THEN NoHandle ELSE EntryOf(StateIds[i]),
                          IF i = 2 THEN NoHandle ELSE ExitOf(StateIds[i])).S,
                i + 1, par, flip)

\* then at most one transition, for event "a": tr is <<state, target, with
\* guard>>, target 0 for None, or <<0, 0, FALSE>> for no add_trans call
BuildTrans(S, tr) ==
    IF tr[1] = 0 THEN S
    ELSE add_trans(S, StateIds[tr[1]], "a",
                   IF tr[2] = 0 THEN NoneId ELSE StateIds[tr[2]],
                   ActionOf(StateIds[tr[1]], "a"),
                   IF tr[3] THEN GuardOf(StateIds[tr[1]], "a") ELSE NoHandle).S

ParentChoices == {par \in [2..MaxNodes -> 1..MaxNodes] :
                    \A i \in 2..MaxNodes : par[i] < i /\ par[i] >= i - 2}

\* the second or the third state, or none
FlipChoices == {0, 2, 3}

TransCalls == ((1..MaxNodes) \X (0..MaxNodes) \X BOOLEAN) \cup {<<0, 0, FALSE>>}

\* the structures the scripts build
Scripted ==
    {BuildTrans(BuildStates(EmptyStructure, 1, par, flip), tr) :
        par \in ParentChoices, flip \in FlipChoices, tr \in TransCalls}

\* those of the scripts whose add_state calls all succeed
ScriptedWhole ==
    {BuildTrans(BuildStates(EmptyStructure, 1, par, 0), tr) :
        par \in ParentChoices, tr \in TransCalls}

\* no handle_event call in progress
Idle == [pc |-> "idle", method |-> "-", guard |-> NoHandle,
         methodcalls |-> <<>>, target_node |-> NoNode, index |-> 0]

NoCall == [op |-> "-", arg |-> "-", result |-> "-", pre |-> NoNode, nested |-> <<>>]

\* the record of a call on the Structure: the method and the exception
\* raised ("ok" for none)
StructureCall(op, err) == [op |-> op, err |-> err]

NoStructureCall == StructureCall("-", "-")

\* SympleHFSM.__init__ for every machine
NewMachines ==
    /\ handle_event = [m \in Machines |-> "_handle_event_not_inititalized"]
    /\ _current_state = [m \in Machines |-> NoNode]
    /\ _currently_handling_event = [m \in Machines |-> FALSE]
    /\ frame = [m \in Machines |-> Idle]
    /\ captured_actions = [m \in Machines |-> <<>>]
    /\ last = [m \in Machines |-> NoCall]
    /\ init_called = [m \in Machines |-> FALSE]
    /\ exit_called = [m \in Machines |-> FALSE]

\* Structure built by a script, not optimized; SympleHFSM.__init__ for every
\* machine
InitOn(structures) ==
    /\ \E S \in structures :
            /\ nodes = S.nodes
            /\ states = S.states
            /\ root = S.root
    /\ is_optimized = FALSE
    /\ optimized = [n \in DOMAIN nodes |-> EmptyDict]
    /\ structure_call = NoStructureCall
    /\ NewMachines

Init == InitOn(Scripted)

\* ------------------------------------------------------------------------
\* Structure: do_optimize
\* ------------------------------------------------------------------------

\* the nodes of self.states.values(), in the order of the dict
StateNodes(S) == {S.states[id] : id \in DOMAIN S.states}

\* `events`: all events some state defines
AllEvents(S) == UNION {DOMAIN S.nodes[n].events : n \in StateNodes(S)}

\* `leafs`: the states without children
Leafs(S) == {n \in StateNodes(S) : Len(S.nodes[n].children) = 0}

\* the tuple of the leaf's parent stored in place of the leaf's
OptimizedEntryOfParent(S, event, leaf) ==
    LET r == _get_methodcallers(S, event, S.nodes[leaf].parent)
    IN  [guard |-> r.guard, methodcalls |-> r.methodcalls, target_node |-> r.target_node]

\* the tuple stored in leaf.optimized[event]
OptimizedEntry(S, event, leaf) ==
    LET r == _get_methodcallers(S, event, leaf)
    IN  [guard |-> r.guard, methodcalls |-> r.methodcalls, target_node |-> r.target_node]

\* the events for which _get_methodcallers raises on this leaf
RaisingEvents(S, leaf) ==
    {e \in AllEvents(S) : _get_methodcallers(S, e, leaf).err # "ok"}

\* tables that hold the tuples of every state, not of the leafs only
OptimizedTablesOfAllStates(S, old) ==
    [n \in DOMAIN S.nodes |->
        IF n \in StateNodes(S)
        THEN [e \in AllEvents(S) |-> OptimizedEntry(S, e, n)]
        ELSE old[n]]

\* the tables after `for leaf in leafs` has run through: every leaf's table
\* cleared and filled for all events, the other tables as they were
OptimizedTables(S, old) ==
    [n \in DOMAIN S.nodes |->
        IF n \in Leafs(S)
        THEN [e \in AllEvents(S) |-> OptimizedEntry(S, e, n)]
        ELSE old[n]]

\* Structure.do_optimize().  The leafs are visited in the order of the dict,
\* the events in the order of a set, which is any order: when
\* _get_methodcallers raises, the leafs before the raising one are done, the
\* raising one has been cleared and holds the events that came before the
\* raising event, and is_optimized is left as it was.
do_optimize ==
    /\ \A m \in Machines : frame[m].pc = "idle"
    /\ LET S == Structure
           raising == {l \in Leafs(S) : RaisingEvents(S, l) # {}}
       IN  IF raising = {}
           THEN /\ optimized' = OptimizedTables(S, optimized)
                /\ is_optimized' = TRUE
                /\ structure_call' = StructureCall("do_optimize", "ok")
           ELSE LET first == CHOOSE l \in raising : \A k \in raising : l <= k
                IN  /\ \E done \in SUBSET (AllEvents(S) \ RaisingEvents(S, first)) :
                          optimized' = [n \in DOMAIN nodes |->
                              IF n \in Leafs(S) /\ n < first
                              THEN [e \in AllEvents(S) |-> OptimizedEntry(S, e, n)]
                              ELSE IF n = first
                              THEN [e \in done |-> OptimizedEntry(S, e, n)]
                              ELSE optimized[n]]
                    /\ UNCHANGED is_optimized
                    /\ structure_call' =
                          StructureCall("do_optimize",
                              _get_methodcallers(S,
                                  CHOOSE e \in RaisingEvents(S, first) : TRUE, first).err)
    /\ UNCHANGED <<nodes, states, root>>
    /\ UNCHANGED machine_vars

\* ------------------------------------------------------------------------
\* SympleHFSM: init, exit, set_state
\* ------------------------------------------------------------------------

\* the record of a top-level call: what was called, with what (for init and
\* exit: the method bound to handle_event before the call), how it ended, for
\* init, exit and handle_event the node the machine was in before, and the
\* call made on the machine from inside a guard or an action of that call:
\* <<method, argument, end>>
Call(op, arg, result, pre) ==
    [op |-> op, arg |-> arg, result |-> result, pre |-> pre, nested |-> <<>>]

\* the property current_state: the identifier of the current state, or None
current_state(m) ==
    IF _current_state[m] # NoNode THEN nodes[_current_state[m]].name ELSE NoneId

\* init() without the check that it has been called already
InitErrorRepeatable(m) ==
    IF root \notin DOMAIN states THEN "KeyError"
    ELSE node_check_consistency(nodes, states[root])

\* the exception init() raises before it invokes anything, "ok" for none
InitError(m) ==
    IF handle_event[m] # "_handle_event_not_inititalized" THEN "InitAlreadyCalledError"
    ELSE IF root \notin DOMAIN states THEN "KeyError"
    ELSE node_check_consistency(nodes, states[root])

\* the choice by the structure's flag alone
SelectHandlerByFlag(use_optimization) ==
    IF is_optimized
    THEN "_handle_event_optimized" ELSE "_handle_event_normal"

\* the method init() binds to handle_event
SelectHandler(use_optimization) ==
    IF use_optimization /\ is_optimized
    THEN "_handle_event_optimized" ELSE "_handle_event_normal"

\* SympleHFSM.init(use_optimization), called outside event handling
init(m, use_optimization) ==
    /\ frame[m].pc = "idle"
    /\ init_called' = [init_called EXCEPT ![m] = TRUE]
    /\ UNCHANGED exit_called
    /\ LET err == InitError(m)
       IN  IF err # "ok"
           THEN /\ last' = [last EXCEPT ![m] = Call("init", handle_event[m], err, _current_state[m])]
                /\ captured_actions' = [captured_actions EXCEPT ![m] = <<>>]
                /\ UNCHANGED <<handle_event, _current_state>>
           ELSE LET node == states[root]
                    down == InitialEntries(nodes, node,
                                           AppendIfSet(<<>>, nodes[node].entry))
                IN  /\ captured_actions' =
                          [captured_actions EXCEPT ![m] = down.methodcalls]
                    /\ _current_state' = [_current_state EXCEPT ![m] = down.target_node]
                    /\ handle_event' =
                          [handle_event EXCEPT ![m] = SelectHandler(use_optimization)]
                    /\ last' = [last EXCEPT ![m] =
                                    Call("init", handle_event[m], "ok",
                                         _current_state[m])]
    /\ UNCHANGED <<_currently_handling_event, frame>>
    /\ UNCHANGED structure_vars

\* the exit action of the node alone
ExitChainLocal(N, node, methodcalls) ==
    IF node = NoNode THEN methodcalls ELSE AppendIfSet(methodcalls, N[node].exit)

\* the exit actions exit() invokes: from node up along the parents
RECURSIVE ExitChain(_, _, _)
ExitChain(N, node, methodcalls) ==
    IF node = NoNode THEN methodcalls
    ELSE ExitChain(N, N[node].parent, AppendIfSet(methodcalls, N[node].exit))

\* exit() looks the current state up by its identifier
ExitError(m) ==
    IF Truthy(current_state(m)) /\ current_state(m) \notin DOMAIN states
    THEN "KeyError" ELSE "ok"

ExitNode(m) ==
    IF Truthy(current_state(m)) THEN states[current_state(m)] ELSE NoNode

\* SympleHFSM.exit(), called outside event handling
exit(m) ==
    /\ frame[m].pc = "idle"
    /\ IF ExitError(m) # "ok"
       THEN /\ last' = [last EXCEPT ![m] =
                            Call("exit", handle_event[m], ExitError(m),
                                 _current_state[m])]
            /\ captured_actions' = [captured_actions EXCEPT ![m] = <<>>]
            /\ UNCHANGED <<handle_event, _current_state, exit_called>>
       ELSE /\ captured_actions' =
                  [captured_actions EXCEPT ![m] = ExitChain(nodes, ExitNode(m), <<>>)]
            /\ exit_called' = [exit_called EXCEPT ![m] = TRUE]
            /\ _current_state' = [_current_state EXCEPT ![m] = NoNode]
            /\ handle_event' =
                  [handle_event EXCEPT ![m] = "_handle_event_not_inititalized"]
            /\ last' = [last EXCEPT ![m] = Call("exit", handle_event[m], "ok",
                                                _current_state[m])]
    /\ UNCHANGED <<_currently_handling_event, frame, init_called>>
    /\ UNCHANGED structure_vars

\* set_state without the check of the re-entrancy flag
SetStateErrorUnlocked(m, state_identifier) ==
    IF state_identifier \notin DOMAIN states THEN "StateUnknownError" ELSE "ok"

\* the exception set_state raises, "ok" for none
SetStateError(m, state_identifier) ==
    IF state_identifier \notin DOMAIN states THEN "StateUnknownError"
    ELSE IF _currently_handling_event[m] THEN "ReentrantEventException"
    ELSE "ok"

\* the identifiers set_state is called with: the known ones and an unknown one
SetStateArgs == DOMAIN states \cup {"unknown"}

\* set_state that runs the entry action of the state it sets
set_state_entering(m, state_identifier) ==
    /\ frame[m].pc = "idle"
    /\ LET err == SetStateError(m, state_identifier)
       IN  /\ last' = [last EXCEPT ![m] =
                           Call("set_state", state_identifier, err, NoNode)]
           /\ _current_state' = [_current_state EXCEPT ![m] =
                                    IF err = "ok" THEN states[state_identifier] ELSE @]
           /\ captured_actions' = [captured_actions EXCEPT ![m] =
                 IF err = "ok"
                 THEN AppendIfSet(<<>>, nodes[states[state_identifier]].entry)
                 ELSE <<>>]
    /\ UNCHANGED <<handle_event, _currently_handling_event, frame, init_called, exit_called>>
    /\ UNCHANGED structure_vars

\* SympleHFSM.set_state(state_identifier), called outside event handling
set_state(m, state_identifier) ==
    /\ frame[m].pc = "idle"
    /\ LET err == SetStateError(m, state_identifier)
       IN  /\ last' = [last EXCEPT ![m] =
                           Call("set_state", state_identifier, err, NoNode)]
           /\ _current_state' = [_current_state EXCEPT ![m] =
                                    IF err = "ok" THEN states[state_identifier] ELSE @]
    /\ captured_actions' = [captured_actions EXCEPT ![m] = <<>>]
    /\ UNCHANGED <<handle_event, _currently_handling_event, frame, init_called, exit_called>>
    /\ UNCHANGED structure_vars

\* ------------------------------------------------------------------------
\* SympleHFSM: handle_event
\* ------------------------------------------------------------------------

\* the same without `self._currently_handling_event = True`
RunOnUnlocked(m, fr) ==
    IF fr.pc = "guard" \/ fr.index <= Len(fr.methodcalls)
    THEN /\ frame' = [frame EXCEPT ![m] = fr]
         /\ UNCHANGED <<_currently_handling_event, _current_state>>
    ELSE /\ frame' = [frame EXCEPT ![m] = Idle]
         /\ _currently_handling_event' =
               [_currently_handling_event EXCEPT ![m] = FALSE]
         /\ _current_state' = [_current_state EXCEPT ![m] =
               IF fr.method = "_handle_event_optimized" /\ fr.target_node = NoNode
               THEN @ ELSE fr.target_node]

\* the same with `self._current_state = target_node` ahead of the actions
RunOnMovingFirst(m, fr) ==
    /\ _current_state' = [_current_state EXCEPT ![m] =
          IF fr.target_node = NoNode \/ fr.pc = "guard" THEN @ ELSE fr.target_node]
    /\ IF fr.pc = "guard" \/ fr.index <= Len(fr.methodcalls)
       THEN /\ frame' = [frame EXCEPT ![m] = fr]
            /\ _currently_handling_event' =
                  [_currently_handling_event EXCEPT ![m] = TRUE]
       ELSE /\ frame' = [frame EXCEPT ![m] = Idle]
            /\ _currently_handling_event' =
                  [_currently_handling_event EXCEPT ![m] = FALSE]

\* the same without `self._currently_handling_event = False` at the end
RunOnLocked(m, fr) ==
    /\ _currently_handling_event' =
          [_currently_handling_event EXCEPT ![m] = TRUE]
    /\ IF fr.pc = "guard" \/ fr.index <= Len(fr.methodcalls)
       THEN /\ frame' = [frame EXCEPT ![m] = fr]
            /\ UNCHANGED _current_state
       ELSE /\ frame' = [frame EXCEPT ![m] = Idle]
            /\ _current_state' = [_current_state EXCEPT ![m] =
                  IF fr.method = "_handle_event_optimized" /\ fr.target_node = NoNode
                  THEN @ ELSE fr.target_node]

\* the same with the flag an attribute of the class, one for all the machines
RunOnSharedFlag(m, fr) ==
    IF fr.pc = "guard" \/ fr.index <= Len(fr.methodcalls)
    THEN /\ frame' = [frame EXCEPT ![m] = fr]
         /\ _currently_handling_event' = [o \in Machines |-> TRUE]
         /\ UNCHANGED _current_state
    ELSE /\ frame' = [frame EXCEPT ![m] = Idle]
         /\ _currently_handling_event' = [o \in Machines |-> FALSE]
         /\ _current_state' = [_current_state EXCEPT ![m] =
               IF fr.method = "_handle_event_optimized" /\ fr.target_node = NoNode
               THEN @ ELSE fr.target_node]

\* The handle_event call of machine m with the locals fr runs on until it
\* invokes the next methodcaller (the guard, or methodcalls[index]), or to its
\* end: `self._current_state = target_node`, under `if target_node:` in
\* _handle_event_optimized, and the flag reset.
RunOn(m, fr) ==
    IF fr.pc = "guard" \/ fr.index <= Len(fr.methodcalls)
    THEN /\ frame' = [frame EXCEPT ![m] = fr]
         /\ _currently_handling_event' =
               [_currently_handling_event EXCEPT ![m] = TRUE]
         /\ UNCHANGED _current_state
    ELSE /\ frame' = [frame EXCEPT ![m] = Idle]
         /\ _currently_handling_event' =
               [_currently_handling_event EXCEPT ![m] = FALSE]
         /\ _current_state' = [_current_state EXCEPT ![m] =
               IF fr.method = "_handle_event_optimized" /\ fr.target_node = NoNode
               THEN @ ELSE fr.target_node]

\* the result of the call once RunOn has run
ResultOf(fr) ==
    IF fr.pc = "guard" \/ fr.index <= Len(fr.methodcalls) THEN "running" ELSE "ok"

\* the locals after the tuple (guard, methodcalls, target_node) is unpacked
Unpacked(method, t) ==
    [pc |-> IF t.guard # NoHandle THEN "guard" ELSE "actions", method |-> method,
     guard |-> t.guard, methodcalls |-> t.methodcalls,
     target_node |-> t.target_node, index |-> 1]

\* a stub that takes the re-entrancy flag before it raises
_handle_event_not_inititalized_locking(m, event) ==
    /\ frame[m].pc = "idle"
    /\ handle_event[m] = "_handle_event_not_inititalized"
    /\ last' = [last EXCEPT ![m] = Call("handle_event", event,
                                        "NotInitializedException", _current_state[m])]
    /\ captured_actions' = [captured_actions EXCEPT ![m] = <<>>]
    /\ _currently_handling_event' = [_currently_handling_event EXCEPT ![m] = TRUE]
    /\ UNCHANGED <<handle_event, _current_state, frame, init_called, exit_called>>
    /\ UNCHANGED structure_vars

\* SympleHFSM._handle_event_not_inititalized, as self.handle_event(event)
_handle_event_not_inititalized(m, event) ==
    /\ frame[m].pc = "idle"
    /\ handle_event[m] = "_handle_event_not_inititalized"
    /\ last' = [last EXCEPT ![m] = Call("handle_event", event,
                                        "NotInitializedException", _current_state[m])]
    /\ captured_actions' = [captured_actions EXCEPT ![m] = <<>>]
    /\ UNCHANGED <<handle_event, _current_state, _currently_handling_event, frame,
                   init_called, exit_called>>
    /\ UNCHANGED structure_vars

\* a default whose target is the first node in place of None
OptimizedDefaultToRoot == [guard |-> NoHandle, methodcalls |-> <<>>, target_node |-> 1]

\* the default of the defaultdict BaseState.optimized
OptimizedDefault == [guard |-> NoHandle, methodcalls |-> <<>>, target_node |-> NoNode]

\* SympleHFSM._handle_event_optimized, as self.handle_event(event), up to the
\* first methodcaller it invokes.  Reading a missing key of the defaultdict
\* stores the default under that key.
_handle_event_optimized(m, event) ==
    /\ frame[m].pc = "idle"
    /\ handle_event[m] = "_handle_event_optimized"
    /\ captured_actions' = [captured_actions EXCEPT ![m] = <<>>]
    /\ IF _currently_handling_event[m]
       THEN /\ last' = [last EXCEPT ![m] = Call("handle_event", event,
                                "ReentrantEventException", _current_state[m])]
            /\ UNCHANGED <<_current_state, _currently_handling_event, frame, optimized>>
       ELSE LET table == optimized[_current_state[m]]
                t == IF event \in DOMAIN table THEN table[event] ELSE OptimizedDefault
                fr == Unpacked("_handle_event_optimized", t)
            IN  /\ optimized' = [optimized EXCEPT ![_current_state[m]] =
                                    IF event \in DOMAIN table THEN @
                                    ELSE @ @@ (event :> OptimizedDefault)]
                /\ RunOn(m, fr)
                /\ last' = [last EXCEPT ![m] = Call("handle_event", event,
                                                    ResultOf(fr), _current_state[m])]
    /\ UNCHANGED <<handle_event, init_called, exit_called>>
    /\ UNCHANGED <<nodes, states, root, is_optimized, structure_call>>

\* SympleHFSM._handle_event_normal, as self.handle_event(event), up to the
\* first methodcaller it invokes.  An exception of _get_methodcallers leaves
\* the call with the flag set.
_handle_event_normal(m, event) ==
    /\ frame[m].pc = "idle"
    /\ handle_event[m] = "_handle_event_normal"
    /\ captured_actions' = [captured_actions EXCEPT ![m] = <<>>]
    /\ IF _currently_handling_event[m]
       THEN /\ last' = [last EXCEPT ![m] = Call("handle_event", event,
                                "ReentrantEventException", _current_state[m])]
            /\ UNCHANGED <<_current_state, _currently_handling_event, frame>>
       ELSE LET r == _get_methodcallers(Structure, event, _current_state[m])
                fr == Unpacked("_handle_event_normal", r)
            IN  IF r.err # "ok"
                THEN /\ last' = [last EXCEPT ![m] = Call("handle_event", event,
                                                    r.err, _current_state[m])]
                     /\ _currently_handling_event' =
                           [_currently_handling_event EXCEPT ![m] = TRUE]
                     /\ UNCHANGED <<_current_state, frame>>
                ELSE /\ RunOn(m, fr)
                     /\ last' = [last EXCEPT ![m] = Call("handle_event", event,
                                                    ResultOf(fr), _current_state[m])]
    /\ UNCHANGED <<handle_event, init_called, exit_called>>
    /\ UNCHANGED structure_vars

\* the methodcaller the call in progress has invoked and waits for
Running(m) ==
    IF frame[m].pc = "guard" THEN frame[m].guard
    ELSE frame[m].methodcalls[frame[m].index]

\* the guard returns: on False the event goes on to the transition that a
\* state above the handling state defines for it
guard_returns_bubbling(m, value) ==
    /\ frame[m].pc = "guard"
    /\ captured_actions' = [captured_actions EXCEPT ![m] = Append(@, Running(m))]
    /\ LET h == FindHandler(nodes, last[m].arg, _current_state[m], <<>>)
           above == nodes[h.source_node].parent
           r == IF value = FALSE /\ above # NoNode
                THEN _get_methodcallers(Structure, last[m].arg, above)
                ELSE [err |-> "ok", guard |-> NoHandle, methodcalls |-> <<>>,
                      target_node |-> _current_state[m]]
           fr == IF value = FALSE THEN Unpacked(frame[m].method, r)
                 ELSE [frame[m] EXCEPT !.pc = "actions"]
       IN  /\ RunOn(m, fr)
           /\ last' = [last EXCEPT ![m].result = ResultOf(fr)]
    /\ UNCHANGED <<handle_event, init_called, exit_called>>
    /\ UNCHANGED structure_vars

\* the guard returns and the call runs on whatever the guard returned
guard_returns_unchecked(m, value) ==
    /\ frame[m].pc = "guard"
    /\ captured_actions' = [captured_actions EXCEPT ![m] = Append(@, Running(m))]
    /\ LET fr == [frame[m] EXCEPT !.pc = "actions"]
       IN  /\ RunOn(m, fr)
           /\ last' = [last EXCEPT ![m].result = ResultOf(fr)]
    /\ UNCHANGED <<handle_event, init_called, exit_called>>
    /\ UNCHANGED structure_vars

\* the guard returns: `if guard(self.actions) is False` resets the flag and
\* returns, otherwise the call runs on
guard_returns(m, value) ==
    /\ frame[m].pc = "guard"
    /\ captured_actions' = [captured_actions EXCEPT ![m] = Append(@, Running(m))]
    /\ IF value = FALSE
       THEN /\ frame' = [frame EXCEPT ![m] = Idle]
            /\ _currently_handling_event' =
                  [_currently_handling_event EXCEPT ![m] = FALSE]
            /\ last' = [last EXCEPT ![m].result = "guard False"]
            /\ UNCHANGED _current_state
       ELSE LET fr == [frame[m] EXCEPT !.pc = "actions"]
            IN  /\ RunOn(m, fr)
                /\ last' = [last EXCEPT ![m].result = ResultOf(fr)]
    /\ UNCHANGED <<handle_event, init_called, exit_called>>
    /\ UNCHANGED structure_vars

\* the methodcaller methodcalls[index] returns and the call runs on
action_returns(m) ==
    /\ frame[m].pc = "actions"
    /\ captured_actions' = [captured_actions EXCEPT ![m] = Append(@, Running(m))]
    /\ LET fr == [frame[m] EXCEPT !.index = @ + 1]
       IN  /\ RunOn(m, fr)
           /\ last' = [last EXCEPT ![m].result = ResultOf(fr)]
    /\ UNCHANGED <<handle_event, init_called, exit_called>>
    /\ UNCHANGED structure_vars

\* the guard or action raises an exception of its own, which ends the
\* handle_event call where it is
methodcaller_raises(m) ==
    /\ frame[m].pc # "idle"
    /\ captured_actions' = [captured_actions EXCEPT ![m] = Append(@, Running(m))]
    /\ frame' = [frame EXCEPT ![m] = Idle]
    /\ last' = [last EXCEPT ![m].result = "Exception"]
    /\ UNCHANGED <<handle_event, _current_state, _currently_handling_event, init_called, exit_called>>
    /\ UNCHANGED structure_vars

\* ------------------------------------------------------------------------
\* Calls on the machine from inside a guard or an action it is running
\* ------------------------------------------------------------------------

\* the exception self.handle_event(event) raises before it invokes anything
HandleEventError(m) ==
    IF handle_event[m] = "_handle_event_not_inititalized"
    THEN "NotInitializedException"
    ELSE IF _currently_handling_event[m] THEN "ReentrantEventException"
    ELSE "ok"

\* The running guard or action makes a call that raises the exception err.
\* It catches the exception and goes on, or does not: then the exception ends
\* the handle_event call in progress as well.
NestedRaise(m, op, arg, err, caught) ==
    /\ err # "ok"
    /\ IF caught
       THEN /\ last' = [last EXCEPT ![m].nested = <<op, arg, err>>]
            /\ UNCHANGED <<frame, captured_actions>>
       ELSE /\ last' = [last EXCEPT ![m].nested = <<op, arg, err>>, ![m].result = err]
            /\ frame' = [frame EXCEPT ![m] = Idle]
            /\ captured_actions' =
                  [captured_actions EXCEPT ![m] = Append(@, Running(m))]
    /\ UNCHANGED <<handle_event, _current_state, _currently_handling_event, init_called, exit_called>>
    /\ UNCHANGED structure_vars

\* self.handle_event(event) from inside a guard or an action, once per call
nested_handle_event(m, event, caught) ==
    /\ frame[m].pc # "idle"
    /\ last[m].nested = <<>>
    /\ NestedRaise(m, "handle_event", event, HandleEventError(m), caught)

\* set_state(state_identifier) from inside a guard or an action: it raises, or
\* it sets the current state and returns
nested_set_state(m, state_identifier, caught) ==
    /\ frame[m].pc # "idle"
    /\ last[m].nested = <<>>
    /\ LET err == SetStateError(m, state_identifier)
       IN  IF err # "ok"
           THEN NestedRaise(m, "set_state", state_identifier, err, caught)
           ELSE /\ caught
                /\ _current_state' =
                      [_current_state EXCEPT ![m] = states[state_identifier]]
                /\ last' = [last EXCEPT ![m].nested =
                                        <<"set_state", state_identifier, "ok">>]
                /\ UNCHANGED <<handle_event, _currently_handling_event, frame,
                               captured_actions, init_called, exit_called>>
                /\ UNCHANGED structure_vars

\* exit() from inside a guard or an action
nested_exit(m) ==
    /\ frame[m].pc # "idle"
    /\ last[m].nested = <<>>
    /\ ExitError(m) = "ok"
    /\ captured_actions' = [captured_actions EXCEPT ![m] =
                                @ \o ExitChain(nodes, ExitNode(m), <<>>)]
    /\ _current_state' = [_current_state EXCEPT ![m] = NoNode]
    /\ handle_event' = [handle_event EXCEPT ![m] = "_handle_event_not_inititalized"]
    /\ last' = [last EXCEPT ![m].nested = <<"exit", "-", "ok">>]
    /\ exit_called' = [exit_called EXCEPT ![m] = TRUE]
    /\ UNCHANGED <<_currently_handling_event, frame, init_called>>
    /\ UNCHANGED structure_vars

\* the calls on one machine from outside, set_state with one of the
\* identifiers ids, and the returns of the guards and actions it invokes
MachineNext(m, ids) ==
    \/ \E use_optimization \in BOOLEAN : init(m, use_optimization)
    \/ exit(m)
    \/ \E id \in ids : set_state(m, id)
    \/ \E event \in Events : _handle_event_not_inititalized(m, event)
    \/ \E event \in Events : _handle_event_optimized(m, event)
    \/ \E event \in Events : _handle_event_normal(m, event)
    \/ \E value \in BOOLEAN : guard_returns(m, value)
    \/ action_returns(m)

\* the guards and actions raise, or call back into the machine, set_state
\* with one of the identifiers ids
CallbackNext(m, ids) ==
    \/ methodcaller_raises(m)
    \/ \E event \in Events, caught \in BOOLEAN : nested_handle_event(m, event, caught)
    \/ \E id \in ids, caught \in BOOLEAN : nested_set_state(m, id, caught)
    \/ nested_exit(m)

\* one machine on a structure that is optimized at some time, or never; its
\* guards and actions return and do not call the machine
Next ==
    \/ do_optimize
    \/ MachineNext("m1", SetStateArgs)

Spec == Init /\ [][Next]_vars

\* the same with guards and actions that raise or call the machine; set_state
\* is called for the root and for an unknown state
NextReentrant ==
    \/ do_optimize
    \/ MachineNext("m1", {root, "unknown"})
    \/ CallbackNext("m1", {root, "unknown"})

InitReentrant == InitOn(ScriptedWhole)

SpecReentrant == InitReentrant /\ [][NextReentrant]_vars

\* ------------------------------------------------------------------------
\* Building a Structure call by call
\* ------------------------------------------------------------------------

\* the state identifiers the caller passes: two names and one that is false
\* in a condition (0, "", an empty tuple)
BuildIds == {"", "s1", "s2"}

\* the targets the caller passes to add_trans: None and a state identifier
BuildTargets == {NoneId, "s1"}

\* Structure.check_consistency(): the exception raised, "ok" for none
check_consistency(S) ==
    IF S.root \notin DOMAIN S.states THEN "KeyError"
    ELSE node_check_consistency(S.nodes, S.states[S.root])

\* a call of add_state, while fewer than MaxBuilt BaseState objects exist
add_state_call(state_identifier, parent, initial) ==
    /\ Len(nodes) < MaxBuilt
    /\ LET r == add_state(Structure, state_identifier, parent, initial,
                          EntryOf(state_identifier), ExitOf(state_identifier))
       IN  /\ nodes' = r.S.nodes
           /\ states' = r.S.states
           /\ root' = r.S.root
           /\ optimized' = [n \in DOMAIN r.S.nodes |->
                               IF n \in DOMAIN nodes THEN optimized[n] ELSE EmptyDict]
           /\ structure_call' = StructureCall("add_state", r.err)
    /\ UNCHANGED is_optimized
    /\ UNCHANGED machine_vars

\* a call of add_trans for the event "a", with or without guard
add_trans_call(state, target, guarded) ==
    /\ LET r == add_trans(Structure, state, "a", target, ActionOf(state, "a"),
                          IF guarded THEN GuardOf(state, "a") ELSE NoHandle)
       IN  /\ nodes' = r.S.nodes
           /\ structure_call' = StructureCall("add_trans", r.err)
    /\ UNCHANGED <<states, root, is_optimized, optimized>>
    /\ UNCHANGED machine_vars

\* a call of Structure.check_consistency()
check_consistency_call ==
    /\ structure_call' =
          StructureCall("check_consistency", check_consistency(Structure))
    /\ UNCHANGED <<nodes, states, root, is_optimized, optimized>>
    /\ UNCHANGED machine_vars

\* Structure.__init__, and the machines bound to the structure
InitBuild ==
    /\ nodes = EmptyStructure.nodes
    /\ states = EmptyStructure.states
    /\ root = EmptyStructure.root
    /\ is_optimized = FALSE
    /\ optimized = <<>>
    /\ structure_call = NoStructureCall
    /\ NewMachines

NextBuild ==
    \/ \E id \in BuildIds, parent \in BuildIds \cup {NoneId}, initial \in BOOLEAN :
          add_state_call(id, parent, initial)
    \/ \E state \in BuildIds, target \in BuildTargets, guarded \in BOOLEAN :
          add_trans_call(state, target, guarded)
    \/ check_consistency_call

SpecBuild == InitBuild /\ [][NextBuild]_vars

\* the same with do_optimize() called at any time between the other calls
NextRebuild ==
    \/ NextBuild
    \/ do_optimize

SpecRebuild == InitBuild /\ [][NextRebuild]_vars

\* ------------------------------------------------------------------------
\* The traffic light: Light > {Red (initial), Green, Yellow}
\* ------------------------------------------------------------------------

\* the events the traffic light machines are fed
TrafficEvents == {"next", "unknown_event"}

\* add_state and add_trans calls of the scenario, in order: the root without
\* actions, its children with an entry action each, the cycle on "next"
TrafficLight ==
    LET s1 == add_state(EmptyStructure, "Light", NoneId, FALSE, NoHandle, NoHandle).S
        s2 == add_state(s1, "Red", "Light", TRUE, EntryOf("Red"), NoHandle).S
        s3 == add_state(s2, "Green", "Light", FALSE, EntryOf("Green"), NoHandle).S
        s4 == add_state(s3, "Yellow", "Light", FALSE, EntryOf("Yellow"), NoHandle).S
        t1 == add_trans(s4, "Red", "next", "Green", NoHandle, NoHandle).S
        t2 == add_trans(t1, "Green", "next", "Yellow", NoHandle, NoHandle).S
    IN  add_trans(t2, "Yellow", "next", "Red", NoHandle, NoHandle).S

InitTraffic == InitOn({TrafficLight})

\* the calls on a traffic light machine, and the returns of its actions
TrafficMachineNext(m) ==
    \/ \E use_optimization \in BOOLEAN : init(m, use_optimization)
    \/ exit(m)
    \/ \E event \in TrafficEvents : _handle_event_not_inititalized(m, event)
    \/ \E event \in TrafficEvents : _handle_event_optimized(m, event)
    \/ \E event \in TrafficEvents : _handle_event_normal(m, event)
    \/ action_returns(m)

\* two machines on the one structure, optimized at some time or never
NextTraffic ==
    \/ do_optimize
    \/ \E m \in Machines : TrafficMachineNext(m)

SpecTraffic == InitTraffic /\ [][NextTraffic]_vars

\* the identifiers the shared machines are set to: the composite root, a
\* leaf, and one the structure does not know
SharedStateArgs == {"Light", "Yellow", "unknown"}

\* the calls on one of two machines sharing the traffic light structure, with
\* set_state as well, and the returns of its actions
SharedMachineNext(m) ==
    \/ \E use_optimization \in BOOLEAN : init(m, use_optimization)
    \/ exit(m)
    \/ \E id \in SharedStateArgs : set_state(m, id)
    \/ _handle_event_not_inititalized(m, "next")
    \/ _handle_event_optimized(m, "next")
    \/ _handle_event_normal(m, "next")
    \/ action_returns(m)

NextShared ==
    \/ do_optimize
    \/ \E m \in Machines : SharedMachineNext(m)

SpecShared == InitTraffic /\ [][NextShared]_vars

\* ------------------------------------------------------------------------
\* Structures in which several states define the event
\* ------------------------------------------------------------------------

\* add_trans for event "a" on every state of the set `defining`, in the order
\* of the states: target `target` (0 for None) and, when `guarded`, a guard;
\* every transition has the action and the guard of its own state
RECURSIVE BuildTransOn(_, _, _, _, _)
BuildTransOn(S, i, defining, target, guarded) ==
    IF i > MaxNodes THEN S
    ELSE IF i \notin defining THEN BuildTransOn(S, i + 1, defining, target, guarded)
    ELSE BuildTransOn(
            add_trans(S, StateIds[i], "a",
                      IF target = 0 THEN NoneId ELSE StateIds[target],
                      ActionOf(StateIds[i], "a"),
                      IF guarded THEN GuardOf(StateIds[i], "a") ELSE NoHandle).S,
            i + 1, defining, target, guarded)

\* the targets of these transitions: None, the root, the state added last
ShadowTargets == {0, 1, MaxNodes}

\* the structures whose add_state calls all succeed, with the event defined
\* on two states or more
ScriptedShadowing ==
    {BuildTransOn(BuildStates(EmptyStructure, 1, par, 0), 1, defining, target, guarded) :
        par \in ParentChoices,
        defining \in {D \in SUBSET (1..MaxNodes) : Cardinality(D) >= 2},
        target \in ShadowTargets, guarded \in BOOLEAN}

\* these, and the structures with one transition or none
InitShadowing == InitOn(ScriptedShadowing \cup Scripted)

\* one machine on such a structure, initialised, put into any state and fed
\* the event; its guards and actions return
NextShadowing ==
    \/ do_optimize
    \/ \E use_optimization \in BOOLEAN : init("m1", use_optimization)
    \/ \E id \in DOMAIN states : set_state("m1", id)
    \/ \E event \in Events : _handle_event_not_inititalized("m1", event)
    \/ \E event \in Events : _handle_event_optimized("m1", event)
    \/ \E event \in Events : _handle_event_normal("m1", event)
    \/ \E value \in BOOLEAN : guard_returns("m1", value)
    \/ action_returns("m1")

SpecShadowing == InitShadowing /\ [][NextShadowing]_vars

\* ------------------------------------------------------------------------
\* Structures in which every state has an entry and an exit action
\* ------------------------------------------------------------------------

\* the structure S built with an entry and an exit action passed to every
\* add_state call
WithAllActions(S) ==
    [S EXCEPT !.nodes = [n \in DOMAIN S.nodes |->
        [S.nodes[n] EXCEPT !.entry = EntryOf(S.nodes[n].name),
                           !.exit = ExitOf(S.nodes[n].name)]]]

ScriptedAllActions ==
    {WithAllActions(S) : S \in ScriptedShadowing \cup ScriptedWhole}

InitAccounting == InitOn(ScriptedAllActions)

\* one machine on such a structure, initialised, fed the event and exited,
\* never put into a state by set_state; its guards and actions return
NextAccounting ==
    \/ do_optimize
    \/ \E use_optimization \in BOOLEAN : init("m1", use_optimization)
    \/ exit("m1")
    \/ \E event \in Events : _handle_event_not_inititalized("m1", event)
    \/ \E event \in Events : _handle_event_optimized("m1", event)
    \/ \E event \in Events : _handle_event_normal("m1", event)
    \/ \E value \in BOOLEAN : guard_returns("m1", value)
    \/ action_returns("m1")

SpecAccounting == InitAccounting /\ [][NextAccounting]_vars

\* ------------------------------------------------------------------------
\* Properties
\* ------------------------------------------------------------------------

\* the nodes from n up to the root, n first
RECURSIVE PathToRoot(_, _)
PathToRoot(N, n) ==
    IF n = NoNode THEN <<>> ELSE <<n>> \o PathToRoot(N, N[n].parent)

\* no node from n up to the root defines the event
NotDefinedOnPath(event, n) ==
    \A k \in 1..Len(PathToRoot(nodes, n)) :
        event \notin DOMAIN nodes[PathToRoot(nodes, n)[k]].events

\* the handles that are set, in the order of the sequence
HandlesSet(handles) == SelectSeq(handles, LAMBDA h : h # NoHandle)

\* s is the beginning of t
IsPrefix(s, t) == Len(s) <= Len(t) /\ SubSeq(t, 1, Len(s)) = s

\* what a call that resolves to r invokes when nothing stops it
TraceOf(r) == HandlesSet(<<r.guard>>) \o r.methodcalls

\* C1: once do_optimize() has run through, every leaf's table holds for every
\* event defined in the structure the guard, the action list and the target
\* that _get_methodcallers computes for that leaf and event; and a handle_event
\* call made in a leaf, through the table or through the walk, invokes the
\* guard and the actions of that walk in that order and ends in its target
\* (in the leaf itself after a guard veto).
C1_OptimizedEqualsWalk ==
    /\ is_optimized =>
          \A L \in Leafs(Structure), E \in AllEvents(Structure) :
              LET r == _get_methodcallers(Structure, E, L)
              IN  /\ r.err = "ok"
                  /\ E \in DOMAIN optimized[L]
                  /\ optimized[L][E] = [guard |-> r.guard,
                                        methodcalls |-> r.methodcalls,
                                        target_node |-> r.target_node]
    /\ \A m \in Machines :
          (/\ last[m].op = "handle_event"
           /\ last[m].pre \in Leafs(Structure)
           /\ last[m].result \in {"running", "ok", "guard False"})
          => LET r == _get_methodcallers(Structure, last[m].arg, last[m].pre)
             IN  /\ r.err = "ok"
                 /\ IsPrefix(captured_actions[m], TraceOf(r))
                 /\ last[m].result = "running" =>
                        /\ _current_state[m] = last[m].pre
                        /\ frame[m].guard = r.guard
                        /\ frame[m].methodcalls = r.methodcalls
                 /\ last[m].result = "ok" =>
                        /\ captured_actions[m] = TraceOf(r)
                        /\ _current_state[m] = r.target_node
                 /\ last[m].result = "guard False" =>
                        /\ captured_actions[m] = <<r.guard>>
                        /\ _current_state[m] = last[m].pre

\* a machine using the table has taken a transition with exit and entry
\* actions from one leaf to another
C1_Witness ==
    /\ handle_event["m1"] = "_handle_event_optimized"
    /\ last["m1"].op = "handle_event"
    /\ last["m1"].result = "ok"
    /\ last["m1"].pre \in Leafs(Structure)
    /\ _current_state["m1"] # last["m1"].pre
    /\ Len(captured_actions["m1"]) >= 3

\* the last call on m was a handle_event call that an initialised machine
\* with its re-entrancy flag clear has taken
Accepted(m) ==
    /\ last[m].op = "handle_event"
    /\ last[m].result \notin {"NotInitializedException", "ReentrantEventException"}

\* C2: handle_event on a resting machine, for an event that no node from the
\* current state up to the root defines, returns without error, invokes no
\* guard and no action and leaves the current state as it is, through the
\* table and through the walk.
C2_UnhandledEventIsNoOp ==
    \A m \in Machines :
        (Accepted(m) /\ NotDefinedOnPath(last[m].arg, last[m].pre))
        => /\ last[m].result = "ok"
           /\ captured_actions[m] = <<>>
           /\ _current_state[m] = last[m].pre
           /\ frame[m] = Idle
           /\ ~_currently_handling_event[m]

\* a machine using the table has got an event that a state off its path
\* defines, and is where it was
C2_Witness ==
    /\ handle_event["m1"] = "_handle_event_optimized"
    /\ last["m1"].op = "handle_event"
    /\ last["m1"].result = "ok"
    /\ ~_currently_handling_event["m1"]
    /\ _current_state["m1"] = last["m1"].pre
    /\ last["m1"].arg \in AllEvents(Structure)
    /\ NotDefinedOnPath(last["m1"].arg, _current_state["m1"])
    /\ captured_actions["m1"] = <<>>

\* C3: when the guard of the resolved transition returns False, the call ends
\* there without error: nothing was invoked before the guard and nothing is
\* after it, and the current state is the one before the call.
C3_GuardVeto ==
    [][\A m \in Machines :
          guard_returns(m, FALSE)
          => /\ captured_actions[m] = <<>>
             /\ captured_actions'[m] = <<frame[m].guard>>
             /\ _current_state[m] = last[m].pre
             /\ _current_state'[m] = _current_state[m]
             /\ last'[m].result = "guard False"
             /\ frame'[m] = Idle
             /\ ~_currently_handling_event'[m]]_vars

\* a guard has vetoed a transition that leads to another state
C3_Witness ==
    /\ last["m1"].op = "handle_event"
    /\ last["m1"].result = "guard False"
    /\ _current_state["m1"] = last["m1"].pre
    /\ _get_methodcallers(Structure, last["m1"].arg, last["m1"].pre).target_node
          # last["m1"].pre
    /\ Len(_get_methodcallers(Structure, last["m1"].arg, last["m1"].pre).methodcalls) >= 2

\* the handle_event call in progress or just ended resolved to this
Resolved(m) == _get_methodcallers(Structure, last[m].arg, last[m].pre)

\* the call made from inside the guard or action of the last handle_event
\* call was op, and ended in result
Nested(m, op, result) ==
    /\ last[m].nested # <<>>
    /\ last[m].nested[1] = op
    /\ last[m].nested[3] = result

C5_Called(m) ==
    /\ last[m].nested # <<>>
    /\ last[m].nested[1] = "set_state"
    /\ last[m].nested[2] \in DOMAIN states

\* that set_state call has raised ReentrantEventException and has left the
\* current state as it was: nothing but the outer call's own list is invoked
\* and while the outer call has not come to its end the current state is the
\* one before it
C5_Rejected(m) ==
    /\ last[m].nested[3] = "ReentrantEventException"
    /\ Resolved(m).err = "ok"
    /\ IsPrefix(captured_actions[m], TraceOf(Resolved(m)))
    /\ last[m].result = "running" => _current_state[m] = last[m].pre

\* C5 as stated: set_state(id) with a known id from inside a guard or action
\* raises ReentrantEventException and does not change the current state, and
\* the outer handle_event call ends in its own resolved target.
C5_AsStated ==
    \A m \in Machines :
        C5_Called(m)
        => /\ C5_Rejected(m)
           /\ (/\ frame[m].pc = "idle"
               /\ last[m].result \in {"ok", "ReentrantEventException"})
              => _current_state[m] = Resolved(m).target_node

\* C5, amended: set_state(id) with a known id from inside a guard or action
\* raises ReentrantEventException and does not change the current state; when
\* the caller swallows the exception and the outer handle_event call runs to
\* its end, it has invoked all of its list and ends in its own resolved
\* target; otherwise the current state stays the one before the outer call.
C5_NestedSetStateRejected ==
    \A m \in Machines :
        C5_Called(m)
        => /\ C5_Rejected(m)
           /\ last[m].result = "ok" =>
                  /\ captured_actions[m] = TraceOf(Resolved(m))
                  /\ _current_state[m] = Resolved(m).target_node
           /\ last[m].result # "ok" => _current_state[m] = last[m].pre

\* an action has called set_state and swallowed the exception, and the outer
\* call has taken its transition to another state
C5_Witness ==
    /\ C5_Called("m1")
    /\ Nested("m1", "set_state", "ReentrantEventException")
    /\ last["m1"].result = "ok"
    /\ _current_state["m1"] # last["m1"].pre
    /\ Len(captured_actions["m1"]) >= 3

\* the nodes from n down the initial links, n first
RECURSIVE InitialPath(_, _)
InitialPath(N, n) ==
    IF N[n].initial = NoNode THEN <<n>> ELSE <<n>> \o InitialPath(N, N[n].initial)

\* the entry actions of the nodes of a path, in its order
EntriesOf(path) == HandlesSet([i \in 1..Len(path) |-> nodes[path[i]].entry])

\* the exit actions of the nodes of a path, in its order
ExitsAlong(path) == HandlesSet([i \in 1..Len(path) |-> nodes[path[i]].exit])

\* C6: after a successful init() the current state is the childless node at
\* the end of the initial links from the root, and what init() invoked is the
\* entry actions of the nodes on that path, each once, the root's first: no
\* exit action and no transition action.
C6_InitEntersRootToLeaf ==
    \A m \in Machines :
        (last[m].op = "init" /\ last[m].result = "ok")
        => LET path == InitialPath(nodes, states[root])
           IN  /\ _current_state[m] = path[Len(path)]
               /\ nodes[_current_state[m]].children = <<>>
               /\ captured_actions[m] = EntriesOf(path)

\* init() has gone down two levels, over a state without entry action or not
C6_Witness ==
    /\ last["m1"].op = "init"
    /\ last["m1"].result = "ok"
    /\ Len(InitialPath(nodes, states[root])) >= 3
    /\ Len(captured_actions["m1"]) >= 2

\* C7: exit() on a resting machine invokes the exit actions of the current
\* state and of its ancestors up to the root, each once, the current state's
\* first, nothing else, and leaves the machine without current state.
C7_ExitLeavesLeafToRoot ==
    \A m \in Machines :
        (/\ last[m].op = "exit"
         /\ last[m].arg # "_handle_event_not_inititalized"
         /\ last[m].pre # NoNode)
        => /\ last[m].result = "ok"
           /\ captured_actions[m] = ExitsAlong(PathToRoot(nodes, last[m].pre))
           /\ _current_state[m] = NoNode
           /\ handle_event[m] = "_handle_event_not_inititalized"

\* an initialised machine has been exited from two levels or more
C7_Witness ==
    /\ last["m1"].op = "exit"
    /\ last["m1"].arg = "_handle_event_optimized"
    /\ last["m1"].result = "ok"
    /\ _current_state["m1"] = NoNode
    /\ Len(captured_actions["m1"]) >= 2

\* C8: as long as init() has not been called on a machine, handle_event is
\* bound to the method that raises NotInitializedException, and a handle_event
\* call invokes nothing and leaves current state and re-entrancy flag alone.
C8_NotInitialized ==
    \A m \in Machines :
        ~init_called[m]
        => /\ handle_event[m] = "_handle_event_not_inititalized"
           /\ ~_currently_handling_event[m]
           /\ frame[m] = Idle
           /\ last[m].op = "handle_event" =>
                  /\ last[m].result = "NotInitializedException"
                  /\ captured_actions[m] = <<>>
                  /\ _current_state[m] = last[m].pre

\* handle_event has raised on a machine that set_state has put in a state
\* and init() has not been called on
C8_Witness ==
    /\ ~init_called["m1"]
    /\ last["m1"].op = "handle_event"
    /\ last["m1"].result = "NotInitializedException"
    /\ _current_state["m1"] # NoNode
    /\ ~_currently_handling_event["m1"]

\* C9: init() on a machine that is initialised and not exited raises
\* InitAlreadyCalledError, invokes nothing and leaves the current state and the
\* method bound to handle_event as they are.
C9_SecondInitRejected ==
    \A m \in Machines :
        (/\ last[m].op = "init"
         /\ last[m].arg # "_handle_event_not_inititalized")
        => /\ last[m].result = "InitAlreadyCalledError"
           /\ captured_actions[m] = <<>>
           /\ _current_state[m] = last[m].pre
           /\ handle_event[m] = last[m].arg

\* a second init() has been rejected on a machine that walks, on a structure
\* optimized by now
C9_Witness ==
    /\ last["m1"].op = "init"
    /\ last["m1"].result = "InitAlreadyCalledError"
    /\ handle_event["m1"] = "_handle_event_normal"
    /\ is_optimized
    /\ _current_state["m1"] # NoNode

\* the nodes of the tree under n
RECURSIVE Subtree(_, _)
Subtree(N, n) ==
    {n} \cup UNION {Subtree(N, N[n].children[i]) : i \in 1..Len(N[n].children)}

\* some node reachable from the root has a child and no initial child
Inconsistent ==
    /\ root \in DOMAIN states
    /\ \E n \in Subtree(nodes, states[root]) :
          Len(nodes[n].children) > 0 /\ nodes[n].initial = NoNode

\* C10: on an inconsistent structure init() raises InitialNotSetError, invokes
\* nothing, leaves the current state as it is and the machine uninitialised:
\* a handle_event call after it raises NotInitializedException.
C10_InconsistentInitFails ==
    Inconsistent =>
        \A m \in Machines :
            /\ handle_event[m] = "_handle_event_not_inititalized"
            /\ last[m].op = "init" =>
                   /\ last[m].result = "InitialNotSetError"
                   /\ captured_actions[m] = <<>>
                   /\ _current_state[m] = last[m].pre
            /\ last[m].op = "handle_event" =>
                   /\ last[m].result = "NotInitializedException"
                   /\ captured_actions[m] = <<>>
                   /\ _current_state[m] = last[m].pre

\* init() has been tried on an inconsistent structure and the handle_event
\* call after it has raised; the machine has no current state
C10_Witness ==
    /\ Inconsistent
    /\ init_called["m1"]
    /\ last["m1"].op = "handle_event"
    /\ last["m1"].result = "NotInitializedException"
    /\ _current_state["m1"] = NoNode

\* C11: exit() is terminal.  Once exit() has returned on a machine, handle_event
\* stays bound to the method that raises NotInitializedException whatever is
\* called afterwards: right after exit() the machine has no current state, a
\* later init() does not succeed and every later handle_event call raises
\* NotInitializedException.
C11_ExitIsTerminal ==
    \A m \in Machines :
        exit_called[m]
        => /\ handle_event[m] = "_handle_event_not_inititalized"
           /\ (last[m].op = "exit" /\ last[m].result = "ok") =>
                  _current_state[m] = NoNode
           /\ last[m].op = "init" => last[m].result # "ok"
           /\ last[m].op = "handle_event" =>
                  last[m].result = "NotInitializedException"

\* position in PathToRoot(nodes, n) of the first node that defines the event,
\* 0 when none does
HandlerIndex(event, n) ==
    LET path == PathToRoot(nodes, n)
        defining == {k \in 1..Len(path) : event \in DOMAIN nodes[path[k]].events}
    IN  IF defining = {} THEN 0
        ELSE CHOOSE k \in defining : \A j \in defining : k <= j

\* the nearest node from n up to the root that defines the event with target
\* None is the node h
HandledWithoutTarget(event, n, h) ==
    /\ n # NoNode
    /\ HandlerIndex(event, n) # 0
    /\ h = PathToRoot(nodes, n)[HandlerIndex(event, n)]
    /\ nodes[h].events[event].target = NoneId

\* C12: a transition whose target is None never changes state: a handle_event
\* call made in a leaf L, for an event that L or the nearest ancestor defining
\* it defines with target None, that runs to its end (no guard, or the guard
\* passes) leaves the current state L.
C12_TargetNoneKeepsState ==
    \A m \in Machines :
        (/\ Accepted(m)
         /\ last[m].pre \in Leafs(Structure)
         /\ \E h \in DOMAIN nodes : HandledWithoutTarget(last[m].arg, last[m].pre, h)
         /\ last[m].result = "ok")
        => _current_state[m] = last[m].pre

\* C13: for a transition whose target is None, the action list that
\* _get_methodcallers returns is the exit actions of the nodes from the
\* current state up to the handling state, that one left out, followed by the
\* transition's action: no entry action, and no exit action of the handling
\* state.
C13_TargetNoneActionList ==
    \A n \in StateNodes(Structure), h \in DOMAIN nodes, event \in Events :
        HandledWithoutTarget(event, n, h)
        => LET below == SubSeq(PathToRoot(nodes, n), 1, HandlerIndex(event, n) - 1)
               r == _get_methodcallers(Structure, event, n)
           IN  /\ r.err = "ok"
               /\ r.methodcalls =
                     ExitsAlong(below) \o HandlesSet(<<nodes[h].events[event].action>>)
               /\ \A i \in 1..Len(r.methodcalls) : r.methodcalls[i][1] # "entry"
               /\ nodes[h].exit = NoHandle \/
                     \A i \in 1..Len(r.methodcalls) : r.methodcalls[i] # nodes[h].exit

\* the nodes of the tree under the root, none when there is no root
Tree == IF root \in DOMAIN states THEN Subtree(nodes, states[root]) ELSE {}

\* C14: state identifiers are unique within a Structure after any sequence of
\* add_state calls, successful or failed: no two nodes of the tree under the
\* root carry the same identifier, and every node of that tree is the node
\* stored in the states mapping under its identifier.
C14_UniqueIdentifiers ==
    /\ \A n1, n2 \in Tree :
          (n1 # n2 /\ nodes[n1].name # NameOf(NoneId)) => nodes[n1].name # nodes[n2].name
    /\ \A n \in Tree :
          \E id \in DOMAIN states :
              /\ states[id] = n
              /\ Truthy(id) => nodes[n].name = id

\* the errors C15 names for a call add_state(id, parent, initial) on the
\* structure as it is
AddStateMisuse(id, parent, initial) ==
    (IF parent # NoneId /\ parent \notin DOMAIN states
     THEN {"ParentUnkownError"} ELSE {})
    \cup (IF parent = NoneId /\ root # NoneId
          THEN {"RootAlreadySetOrParentMissingError"} ELSE {})
    \cup (IF initial /\ parent \in DOMAIN states /\ nodes[states[parent]].initial # NoNode
          THEN {"InitialStateAlreadySetError"} ELSE {})
    \cup (IF id \in DOMAIN states /\ parent \in DOMAIN states
          THEN {"StateIdentifierAlreadyUsed"} ELSE {})

\* how often node n is listed as a child of node p
TimesListed(p, n) ==
    Cardinality({i \in 1..Len(nodes[p].children) : nodes[p].children[i] = n})

\* the BaseState objects form a tree: at most one has no parent, and every
\* other one is listed once by its parent and by no other node
IsTree ==
    /\ Cardinality({n \in DOMAIN nodes : nodes[n].parent = NoNode}) <= 1
    /\ \A n \in DOMAIN nodes :
          nodes[n].parent # NoNode =>
              \A p \in DOMAIN nodes :
                  TimesListed(p, n) = IF p = nodes[n].parent THEN 1 ELSE 0

\* C15: add_state raises the error of the misuse case the call is in
\* (ParentUnkownError, RootAlreadySetOrParentMissingError,
\* InitialStateAlreadySetError, StateIdentifierAlreadyUsed) and succeeds when
\* it is in none, and after any sequence of calls the nodes form a tree with
\* at most one root.
C15_AddStateErrors ==
    [][\A id \in BuildIds, parent \in BuildIds \cup {NoneId}, initial \in BOOLEAN :
          add_state_call(id, parent, initial)
          => /\ IF AddStateMisuse(id, parent, initial) = {}
                THEN structure_call'.err = "ok"
                ELSE structure_call'.err \in AddStateMisuse(id, parent, initial)
             /\ IsTree']_vars

\* the exception C16 names for a call add_trans(state, "a", target, ...) on
\* the structure as it is, "ok" for none
AddTransMisuse(state, target) ==
    IF state \notin DOMAIN states \/ (target # NoneId /\ target \notin DOMAIN states)
    THEN "StateUnknownError"
    ELSE IF "a" \in DOMAIN nodes[states[state]].events
    THEN "EventAlreadyDefinedError"
    ELSE "ok"

\* every stored transition leads to None or to a state of the structure
TargetsKnown ==
    \A n \in DOMAIN nodes :
        \A event \in DOMAIN nodes[n].events :
            nodes[n].events[event].target \in DOMAIN states \cup {NoneId}

\* C16: add_trans raises StateUnknownError when the state or a target that is
\* not None is not in the structure, EventAlreadyDefinedError when the state
\* has a transition for the event already, and then changes nothing: the first
\* transition stays as it was; otherwise it stores the transition for that
\* state and event and nothing else.  Every stored transition leads to None or
\* to a state of the structure.
C16_AddTransErrors ==
    [][\A state \in BuildIds, target \in BuildTargets, guarded \in BOOLEAN :
          add_trans_call(state, target, guarded)
          => /\ structure_call'.err = AddTransMisuse(state, target)
             /\ structure_call'.err # "ok" => nodes' = nodes
             /\ structure_call'.err = "ok" =>
                   nodes' = [nodes EXCEPT ![states[state]].events =
                       @ @@ ("a" :> NewTransition(target, ActionOf(state, "a"),
                                IF guarded THEN GuardOf(state, "a") ELSE NoHandle))]
             /\ TargetsKnown']_vars

\* a second add_trans for a state that has a guarded transition to "s1" for
\* the event has been rejected
C16_Witness ==
    /\ structure_call = StructureCall("add_trans", "EventAlreadyDefinedError")
    /\ \E n \in DOMAIN nodes :
          /\ "a" \in DOMAIN nodes[n].events
          /\ nodes[n].events["a"].target = "s1"
          /\ nodes[n].events["a"].guard # NoHandle
          /\ nodes[n].parent # NoNode

\* the state of the scenario with this identifier
TrafficState(id) == TrafficLight.states[id]

\* C17: the traffic light.  init() ends in Red and has invoked the entry
\* action of Red and nothing else; handle_event("next") in Red ends in Green
\* and has invoked the entry action of Green and nothing else; in Green it
\* ends in Yellow and has invoked the entry action of Yellow and nothing else;
\* handle_event("unknown_event") in Yellow stays in Yellow and invokes nothing.
C17_TrafficLight ==
    \A m \in Machines :
        /\ (last[m].op = "init" /\ last[m].result = "ok")
           => /\ _current_state[m] = TrafficState("Red")
              /\ captured_actions[m] = <<EntryOf("Red")>>
        /\ (Accepted(m) /\ last[m].arg = "next" /\ last[m].result = "ok")
           => /\ last[m].pre = TrafficState("Red") =>
                    /\ _current_state[m] = TrafficState("Green")
                    /\ captured_actions[m] = <<EntryOf("Green")>>
              /\ last[m].pre = TrafficState("Green") =>
                    /\ _current_state[m] = TrafficState("Yellow")
                    /\ captured_actions[m] = <<EntryOf("Yellow")>>
        /\ (Accepted(m) /\ last[m].arg = "unknown_event"
                /\ last[m].pre = TrafficState("Yellow"))
           => /\ last[m].result = "ok"
              /\ _current_state[m] = TrafficState("Yellow")
              /\ captured_actions[m] = <<>>

\* after init() and "next" twice, the machine has got the unknown event in
\* Yellow, on the optimized structure
C17_Witness ==
    /\ handle_event["m1"] = "_handle_event_optimized"
    /\ last["m1"].op = "handle_event"
    /\ last["m1"].arg = "unknown_event"
    /\ last["m1"].pre = TrafficState("Yellow")
    /\ _current_state["m1"] = TrafficState("Yellow")
    /\ ~exit_called["m1"]

\* on the heap N some node under the root has a child and no initial child
LacksInitial(N) ==
    \E n \in Subtree(N, states[root]) :
        Len(N[n].children) > 0 /\ N[n].initial = NoNode

\* on the heap N some node under the root lists a child whose recorded parent
\* is another node, or none
WrongParent(N) ==
    \E n \in Subtree(N, states[root]) :
        \E i \in 1..Len(N[n].children) : N[N[n].children[i]].parent # n

\* the heaps that differ from `nodes` in the recorded parent of at most one
\* node
Reparented ==
    {[nodes EXCEPT ![n].parent = p] : n \in DOMAIN nodes, p \in DOMAIN nodes \cup {NoNode}}
    \cup {nodes}

\* C18: check_consistency() on a Structure with a root raises if and only if
\* some node under the root has a child and no initial child, or lists a child
\* whose recorded parent is another node; in a Structure built by add_state
\* calls no parent is wrong; and the call changes nothing in the Structure.
C18_CheckConsistency ==
    [][check_consistency_call
       => /\ UNCHANGED <<nodes, states, root, is_optimized, optimized>>
          /\ root \in DOMAIN states =>
                /\ structure_call'.err # "ok" <=> LacksInitial(nodes)
                /\ ~WrongParent(nodes)
                /\ \A N \in Reparented :
                      node_check_consistency(N, states[root]) # "ok"
                          <=> (LacksInitial(N) \/ WrongParent(N))]_vars

\* the check has raised for a state below the root that has a child and no
\* initial child, in a structure whose root has its initial child
C18_Witness ==
    /\ structure_call = StructureCall("check_consistency", "InitialNotSetError")
    /\ root \in DOMAIN states
    /\ nodes[states[root]].initial # NoNode
    /\ \E n \in DOMAIN nodes :
          nodes[n].parent # NoNode /\ Len(nodes[n].children) > 0

\* C19: do_optimize() is idempotent: on a consistent Structure the call sets
\* is_optimized, and the tables it leaves are the tables a second call right
\* after it leaves.
C19_OptimizeIdempotent ==
    [][(do_optimize /\ check_consistency(Structure) = "ok")
       => /\ is_optimized'
          /\ optimized' = OptimizedTables(Structure, optimized')]_vars

\* C20: do_optimize() changes only the optimized tables of the leafs and the
\* is_optimized flag: the states, the root and every node (parent, children,
\* initial child, entry and exit handles, events) are as before, the tables of
\* the other nodes too, and no guard or action is invoked.  (A do_optimize()
\* step is one that leaves the call records of the machines as they are.)
C20_OptimizeFrame ==
    [][(last' = last /\ frame' = frame /\ do_optimize)
       => /\ nodes' = nodes
          /\ states' = states
          /\ root' = root
          /\ \A n \in DOMAIN nodes \ Leafs(Structure) : optimized'[n] = optimized[n]
          /\ captured_actions' = captured_actions]_vars

\* do_optimize() has run through on a structure with a transition defined on a
\* state with children, and has filled the table of a leaf
C20_Witness ==
    /\ structure_call = StructureCall("do_optimize", "ok")
    /\ is_optimized
    /\ \E n \in StateNodes(Structure) :
          Len(nodes[n].children) > 0 /\ "a" \in DOMAIN nodes[n].events
    /\ \E n \in Leafs(Structure) :
          "a" \in DOMAIN optimized[n] /\ Len(optimized[n]["a"].methodcalls) >= 2

\* where a handle stands in the order exits, transition action, entries
RankOf(h) == IF h[1] = "exit" THEN 1 ELSE IF h[1] = "action" THEN 2 ELSE 3

\* the handles of a list stand in the order exits, transition action, entries
ExitsActionEntries(methodcalls) ==
    \A i \in 1..Len(methodcalls) :
        \A j \in i..Len(methodcalls) :
            RankOf(methodcalls[i]) <= RankOf(methodcalls[j])

\* C21: in every action list that _get_methodcallers returns for a handled
\* event, for every state of the structure as the current state, the exit
\* actions come first, then the transition's action, then the entry actions:
\* no exit action after the transition action or after an entry action, no
\* entry action before the transition action; and a handle_event call that
\* runs to its end has invoked its actions in that order.
C21_ExitsActionEntries ==
    /\ \A n \in StateNodes(Structure), event \in Events :
          LET r == _get_methodcallers(Structure, event, n)
          IN  (HandlerIndex(event, n) # 0 /\ r.err = "ok")
              => /\ ExitsActionEntries(r.methodcalls)
                 /\ \A i \in 1..Len(r.methodcalls) :
                        r.methodcalls[i][1] \in {"exit", "action", "entry"}
    /\ \A m \in Machines :
          (Accepted(m) /\ last[m].result = "ok")
          => ExitsActionEntries(
                SelectSeq(captured_actions[m], LAMBDA h : h[1] # "guard"))

\* a machine has taken a transition that ran two exit actions, the
\* transition's action and two entry actions
C21_Witness ==
    /\ Accepted("m1")
    /\ last["m1"].result = "ok"
    /\ LET r == _get_methodcallers(Structure, last["m1"].arg, last["m1"].pre)
       IN  /\ r.err = "ok"
           /\ captured_actions["m1"] = TraceOf(r)
           /\ \E i \in 1..Len(r.methodcalls) :
                 /\ i >= 3
                 /\ i + 2 <= Len(r.methodcalls)
                 /\ r.methodcalls[i][1] = "action"
                 /\ r.methodcalls[i - 2][1] = "exit"
                 /\ r.methodcalls[i + 2][1] = "entry"

\* position of the node a in a path, 0 when it is not on it
IndexIn(path, a) ==
    IF \E k \in 1..Len(path) : path[k] = a
    THEN CHOOSE k \in 1..Len(path) : path[k] = a
    ELSE 0

\* a sequence back to front
Reversed(s) == [i \in 1..Len(s) |-> s[Len(s) + 1 - i]]

\* the least common ancestor of the handling state h and the target t, two
\* different nodes: h when t is below h, t when h is below t, otherwise the
\* lowest node that has both below it
CommonAncestor(h, t) ==
    IF is_child(nodes, t, h) THEN h
    ELSE IF is_child(nodes, h, t) THEN t
    ELSE LET above == PathToRoot(nodes, nodes[h].parent)
             shared == {k \in 1..Len(above) : is_child(nodes, t, above[k])}
         IN  IF shared = {} THEN NoNode
             ELSE above[CHOOSE k \in shared : \A j \in shared : k <= j]

\* the nearest node from n up to the root that defines the event defines it
\* with a target, and that is the node h and the target another node t
HandledWithTarget(event, n, h, t) ==
    /\ n # NoNode
    /\ HandlerIndex(event, n) # 0
    /\ h = PathToRoot(nodes, n)[HandlerIndex(event, n)]
    /\ nodes[h].events[event].target # NoneId
    /\ t = states[nodes[h].events[event].target]
    /\ t # h

\* C22: for an event handled in the state H with a target T other than H,
\* resolved in a leaf of a consistent structure, with A the least common
\* ancestor of H and T: the list is the exit actions of the nodes from the
\* leaf up to A, A left out, then the transition's action, then the entry
\* actions of the nodes from the child of A towards T down to T and of the
\* nodes on the initial links below T; the target returned is the node at the
\* end of those links; no exit or entry action of A or of a node above A is in
\* the list.
C22_CommonAncestor ==
    check_consistency(Structure) = "ok" =>
    \A n \in Leafs(Structure), event \in Events :
        LET up == PathToRoot(nodes, n)
            h == up[HandlerIndex(event, n)]
            t == states[nodes[h].events[event].target]
        IN  (HandlerIndex(event, n) # 0 /\ HandledWithTarget(event, n, h, t))
            => LET A == CommonAncestor(h, t)
                   left == SubSeq(up, 1, IndexIn(up, A) - 1)
                   down == PathToRoot(nodes, t)
                   towards == Reversed(SubSeq(down, 1, IndexIn(down, A) - 1))
                   below == Tail(InitialPath(nodes, t))
                   r == _get_methodcallers(Structure, event, n)
               IN  /\ A # NoNode
                   /\ r.err = "ok"
                   /\ r.methodcalls =
                         ExitsAlong(left)
                         \o HandlesSet(<<nodes[h].events[event].action>>)
                         \o EntriesOf(towards \o below)
                   /\ r.target_node = InitialPath(nodes, t)[Len(InitialPath(nodes, t))]
                   /\ r.target_node \in Leafs(Structure)
                   /\ \A k \in 1..Len(PathToRoot(nodes, A)) :
                         \A i \in 1..Len(r.methodcalls) :
                            LET a == PathToRoot(nodes, A)[k]
                            IN  /\ r.methodcalls[i] # nodes[a].exit
                                /\ r.methodcalls[i] # nodes[a].entry

\* a machine in a leaf has taken a transition between two states neither of
\* which is above the other, leaving at least two states and entering one
C22_Witness ==
    /\ Accepted("m1")
    /\ last["m1"].result = "ok"
    /\ last["m1"].pre \in Leafs(Structure)
    /\ check_consistency(Structure) = "ok"
    /\ \E h \in DOMAIN nodes, t \in DOMAIN nodes :
          /\ HandledWithTarget(last["m1"].arg, last["m1"].pre, h, t)
          /\ CommonAncestor(h, t) \notin {h, t, NoNode}
          /\ _current_state["m1"] = InitialPath(nodes, t)[Len(InitialPath(nodes, t))]
    /\ \E i \in 1..Len(captured_actions["m1"]) :
          /\ i >= 3
          /\ i < Len(captured_actions["m1"])
          /\ captured_actions["m1"][i][1] = "action"
          /\ captured_actions["m1"][i - 2][1] = "exit"
          /\ captured_actions["m1"][i + 1][1] = "entry"

\* the nearest node from n up to the root that defines the event is the node
\* h, and defines it with h itself as the target
HandledWithItself(event, n, h) ==
    /\ n # NoNode
    /\ HandlerIndex(event, n) # 0
    /\ h = PathToRoot(nodes, n)[HandlerIndex(event, n)]
    /\ nodes[h].events[event].target # NoneId
    /\ states[nodes[h].events[event].target] = h

\* how often a handle stands in a list
TimesIn(methodcalls, h) ==
    Cardinality({i \in 1..Len(methodcalls) : methodcalls[i] = h})

\* C23: for a self-transition of a state H, whichever state of a consistent
\* structure H is, resolved in a leaf: the list is the exit actions of the
\* nodes from the leaf up to H, H included, then the transition's action, then
\* H's entry action, then the entry actions of the nodes on the initial links
\* below H; H's exit and H's entry action stand in it once each; the target
\* returned is the node at the end of those links.
C23_SelfTransition ==
    check_consistency(Structure) = "ok" =>
    \A n \in Leafs(Structure), event \in Events :
        \A h \in DOMAIN nodes :
            HandledWithItself(event, n, h)
            => LET up == PathToRoot(nodes, n)
                   left == SubSeq(up, 1, IndexIn(up, h))
                   r == _get_methodcallers(Structure, event, n)
               IN  /\ r.err = "ok"
                   /\ r.methodcalls =
                         ExitsAlong(left)
                         \o HandlesSet(<<nodes[h].events[event].action>>)
                         \o EntriesOf(InitialPath(nodes, h))
                   /\ nodes[h].exit # NoHandle => TimesIn(r.methodcalls, nodes[h].exit) = 1
                   /\ nodes[h].entry # NoHandle => TimesIn(r.methodcalls, nodes[h].entry) = 1
                   /\ r.target_node = InitialPath(nodes, h)[Len(InitialPath(nodes, h))]

\* the handles of transitions in a list: guards and transition actions
TransitionHandles(handles) ==
    SelectSeq(handles, LAMBDA h : h[1] \in {"guard", "action"})

\* C24: the transition used for handle_event(E) in the state L is the one of
\* the first node on the path L, parent(L), ..., root that defines E, whatever
\* the nodes above it define for E: the guard, the action and the target that
\* _get_methodcallers returns are those of that node's transition, and a
\* handle_event call made in a leaf invokes that transition's guard and action
\* and no other transition's.
C24_NearestHandler ==
    /\ \A n \in StateNodes(Structure), event \in Events :
          LET r == _get_methodcallers(Structure, event, n)
              path == PathToRoot(nodes, n)
          IN  (HandlerIndex(event, n) # 0 /\ r.err = "ok")
              => LET t == nodes[path[HandlerIndex(event, n)]].events[event]
                     T == IF t.target = NoneId THEN path[HandlerIndex(event, n)]
                          ELSE states[t.target]
                 IN  /\ r.guard = t.guard
                     /\ TransitionHandles(r.methodcalls) = HandlesSet(<<t.action>>)
                     /\ r.target_node = InitialPath(nodes, T)[Len(InitialPath(nodes, T))]
    /\ \A m \in Machines :
          (/\ Accepted(m)
           /\ last[m].pre \in Leafs(Structure)
           /\ HandlerIndex(last[m].arg, last[m].pre) # 0
           /\ last[m].result \in {"ok", "guard False"})
          => LET path == PathToRoot(nodes, last[m].pre)
                 t == nodes[path[HandlerIndex(last[m].arg, last[m].pre)]].events[last[m].arg]
             IN  TransitionHandles(captured_actions[m]) =
                    HandlesSet(<<t.guard>>)
                    \o (IF last[m].result = "ok" THEN HandlesSet(<<t.action>>) ELSE <<>>)

\* a machine has taken the transition of its current state's parent for an
\* event that the root defines as well, and the current state does not
C24_Witness ==
    /\ Accepted("m1")
    /\ last["m1"].result = "ok"
    /\ last["m1"].pre \in Leafs(Structure)
    /\ HandlerIndex(last["m1"].arg, last["m1"].pre) = 2
    /\ Len(PathToRoot(nodes, last["m1"].pre)) >= 3
    /\ last["m1"].arg \in DOMAIN nodes[states[root]].events
    /\ Len(TransitionHandles(captured_actions["m1"])) = 2

\* the guards in a list of handles
GuardsIn(handles) == SelectSeq(handles, LAMBDA h : h[1] = "guard")

\* C25: a guard veto stops the processing of the event.  A handle_event call
\* evaluates at most one guard, the one of the transition of the nearest
\* state that defines the event, once and before any action; made in a leaf
\* for a transition with a guard it evaluates exactly that one; and when that
\* guard returns False nothing else has been invoked, no guard and no action
\* of a transition that a state above defines for the event, and the machine
\* is where it was, ready for the next event.
C25_VetoStopsBubbling ==
    \A m \in Machines :
        Accepted(m)
        => LET path == PathToRoot(nodes, last[m].pre)
               k == HandlerIndex(last[m].arg, last[m].pre)
               called == captured_actions[m]
           IN  /\ Len(GuardsIn(called)) <= 1
               /\ \A i \in 2..Len(called) : called[i][1] # "guard"
               /\ GuardsIn(called) # <<>> =>
                     /\ k # 0
                     /\ called[1] = nodes[path[k]].events[last[m].arg].guard
               /\ (/\ last[m].pre \in Leafs(Structure)
                   /\ k # 0
                   /\ last[m].result \in {"ok", "guard False"})
                  => GuardsIn(called) =
                        HandlesSet(<<nodes[path[k]].events[last[m].arg].guard>>)
               /\ last[m].result = "guard False" =>
                     /\ called = <<nodes[path[k]].events[last[m].arg].guard>>
                     /\ _current_state[m] = last[m].pre
                     /\ frame[m] = Idle
                     /\ ~_currently_handling_event[m]

\* the guard of a leaf's transition has returned False for an event that the
\* leaf's parent and the root define as well, with guards of their own
C25_Witness ==
    /\ last["m1"].op = "handle_event"
    /\ last["m1"].result = "guard False"
    /\ last["m1"].pre \in Leafs(Structure)
    /\ HandlerIndex(last["m1"].arg, last["m1"].pre) = 1
    /\ Len(PathToRoot(nodes, last["m1"].pre)) >= 3
    /\ \A k \in 1..3 :
          LET a == PathToRoot(nodes, last["m1"].pre)[k]
          IN  /\ last["m1"].arg \in DOMAIN nodes[a].events
              /\ nodes[a].events[last["m1"].arg].guard # NoHandle
    /\ captured_actions["m1"] = <<GuardOf(nodes[last["m1"].pre].name, last["m1"].arg)>>

\* C26: the dispatch strategy is chosen in init() and stays as long as the
\* machine is initialised.  No step rebinds handle_event from one of the two
\* dispatch methods to the other; only init() binds one of them, the table
\* lookup if and only if use_optimization is true and the structure's
\* is_optimized flag is true at that moment; a do_optimize() step leaves the
\* method of every machine as it is.
C26_StrategyFixedAtInit ==
    [][\A m \in Machines :
        /\ (/\ handle_event[m] # "_handle_event_not_inititalized"
            /\ handle_event'[m] # "_handle_event_not_inititalized")
           => handle_event'[m] = handle_event[m]
        /\ (/\ handle_event'[m] # handle_event[m]
            /\ handle_event[m] = "_handle_event_not_inititalized")
           => /\ \E use_optimization \in BOOLEAN : init(m, use_optimization)
              /\ \A use_optimization \in BOOLEAN :
                    init(m, use_optimization)
                    => handle_event'[m] =
                          IF use_optimization /\ is_optimized
                          THEN "_handle_event_optimized"
                          ELSE "_handle_event_normal"
        /\ is_optimized' # is_optimized => handle_event'[m] = handle_event[m]
      ]_vars

\* a machine that resolves by the walk has taken a transition on a structure
\* that is optimized
C26_Witness ==
    /\ is_optimized
    /\ handle_event["m1"] = "_handle_event_normal"
    /\ Accepted("m1")
    /\ last["m1"].result = "ok"
    /\ _current_state["m1"] # last["m1"].pre

\* C27: a machine rests in a leaf between events: on a consistent structure,
\* once init() has returned and before any exit(), after every init(),
\* handle_event and set_state call that has returned the current state is a
\* node without children.
C27_RestsInLeaf ==
    \A m \in Machines :
        (/\ check_consistency(Structure) = "ok"
         /\ handle_event[m] # "_handle_event_not_inititalized"
         /\ ~exit_called[m]
         /\ last[m].op \in {"init", "handle_event", "set_state"}
         /\ last[m].result \in {"ok", "guard False"})
        => _current_state[m] \in Leafs(Structure)

\* C28: whenever a machine is not initialised, that is whenever handle_event
\* would raise NotInitializedException (before init(), after an init() that
\* failed, after exit()), its current state is None, after every sequence of
\* init, set_state, handle_event and exit calls.
C28_NoneWhenUninitialised ==
    \A m \in Machines :
        (frame[m].pc = "idle" /\ handle_event[m] = "_handle_event_not_inititalized")
        => /\ _current_state[m] = NoNode
           /\ current_state(m) = NoneId

\* C29: a handle_event call that returns normally (the event is not handled,
\* the guard returns False, or the transition is taken) leaves the
\* re-entrancy flag false and no call in progress, so that the next
\* handle_event or set_state call on the machine does not raise
\* ReentrantEventException.
C29_FlagClearAfterReturn ==
    \A m \in Machines :
        (Accepted(m) /\ last[m].result \in {"ok", "guard False"})
        => /\ ~_currently_handling_event[m]
           /\ frame[m] = Idle
           /\ HandleEventError(m) # "ReentrantEventException"
           /\ \A id \in DOMAIN states :
                 SetStateError(m, id) # "ReentrantEventException"

\* a machine has taken a transition with a guard that passed and two actions
\* or more, and its flag is clear
C29_Witness ==
    /\ Accepted("m1")
    /\ last["m1"].result = "ok"
    /\ ~_currently_handling_event["m1"]
    /\ Len(captured_actions["m1"]) >= 3
    /\ captured_actions["m1"][1][1] = "guard"
    /\ _current_state["m1"] # last["m1"].pre

\* the tuple the last handle_event call of m got for its event in the state it
\* was in: from that state's table, or from the walk
ResolvedBy(m) ==
    IF handle_event[m] = "_handle_event_optimized"
    THEN IF last[m].arg \in DOMAIN optimized[last[m].pre]
         THEN optimized[last[m].pre][last[m].arg] ELSE OptimizedDefault
    ELSE _get_methodcallers(Structure, last[m].arg, last[m].pre)

\* the handles in a list that are no guards
ActionsIn(handles) == SelectSeq(handles, LAMBDA h : h[1] # "guard")

\* C30: once the guard of a handle_event call is out of the way (there is
\* none, or it has passed), the call invokes the actions of the resolved list
\* and nothing else, each once and in the order of the list, on the machine's
\* own actions object; while an action runs the current state is still the
\* state the call started in; and only when the last action has returned the
\* current state is the resolved target.
C30_ActionsThenTarget ==
    \A m \in Machines :
        (/\ last[m].op = "handle_event"
         /\ last[m].result \in {"running", "ok"}
         /\ handle_event[m] # "_handle_event_not_inititalized")
        => LET r == ResolvedBy(m)
               done == ActionsIn(captured_actions[m])
           IN  /\ frame[m].pc = "guard" =>
                     /\ captured_actions[m] = <<>>
                     /\ _current_state[m] = last[m].pre
               /\ frame[m].pc = "actions" =>
                     /\ frame[m].methodcalls = r.methodcalls
                     /\ frame[m].index \in 1..Len(r.methodcalls)
                     /\ done = SubSeq(r.methodcalls, 1, frame[m].index - 1)
                     /\ _current_state[m] = last[m].pre
               /\ last[m].result = "ok" =>
                     /\ frame[m] = Idle
                     /\ done = r.methodcalls
                     /\ _current_state[m] =
                           IF r.target_node = NoNode THEN last[m].pre
                           ELSE r.target_node
               /\ frame[m].pc # "guard" =>
                     captured_actions[m] = HandlesSet(<<r.guard>>) \o done
               /\ \A other \in Machines \ {m} :
                     last[other].op = "-" => captured_actions[other] = <<>>

\* a machine is in the middle of a transition to another state: two actions
\* have returned, a third is running, and it is still in the state it was in
C30_Witness ==
    /\ last["m1"].op = "handle_event"
    /\ last["m1"].result = "running"
    /\ frame["m1"].pc = "actions"
    /\ frame["m1"].index = 3
    /\ Len(frame["m1"].methodcalls) >= 3
    /\ frame["m1"].target_node # last["m1"].pre
    /\ _current_state["m1"] = last["m1"].pre
    /\ Len(ActionsIn(captured_actions["m1"])) = 2

\* C31: a set_state call made while no event is being handled invokes no
\* entry, exit, transition or guard handle and touches nothing but the current
\* state: with a known identifier the current state becomes that state, with
\* an unknown one the call raises StateUnknownError and the current state is
\* as before.
C31_SetStateFrame ==
    [][\A m \in Machines :
        (/\ last'[m].op = "set_state"
         /\ last'[m] # last[m] \/ _current_state'[m] # _current_state[m]
         /\ ~_currently_handling_event[m]
         /\ \E id \in SetStateArgs : set_state(m, id))
        => /\ captured_actions'[m] = <<>>
           /\ last'[m].arg \in DOMAIN states =>
                 /\ last'[m].result = "ok"
                 /\ _current_state'[m] = states[last'[m].arg]
                 /\ nodes[_current_state'[m]].name = last'[m].arg
           /\ last'[m].arg \notin DOMAIN states =>
                 /\ last'[m].result = "StateUnknownError"
                 /\ _current_state'[m] = _current_state[m]
           /\ handle_event' = handle_event
           /\ _currently_handling_event' = _currently_handling_event
           /\ frame' = frame
           /\ UNCHANGED structure_vars
      ]_vars

\* set_state has put an initialised machine into a state other than the one
\* init() left it in, a state with an entry action, and nothing was invoked
C31_Witness ==
    /\ last["m1"].op = "set_state"
    /\ last["m1"].result = "ok"
    /\ handle_event["m1"] # "_handle_event_not_inititalized"
    /\ _current_state["m1"] = states[last["m1"].arg]
    /\ nodes[_current_state["m1"]].entry # NoHandle
    /\ _current_state["m1"] # InitialPath(nodes, states[root])[Len(InitialPath(nodes, states[root]))]
    /\ captured_actions["m1"] = <<>>

\* the names of the node n and of the nodes above it
NamesToRoot(n) ==
    {nodes[PathToRoot(nodes, n)[k]].name : k \in 1..Len(PathToRoot(nodes, n))}

\* The states entered and not left since, after the handles of a list have
\* been invoked one after the other, `active` being those states before; ok
\* is false when a state is entered that has not been left, or left that has
\* not been entered.
RECURSIVE Accounted(_, _, _)
Accounted(handles, i, acc) ==
    IF i > Len(handles) THEN acc
    ELSE LET h == handles[i] IN
         IF h[1] = "entry"
         THEN Accounted(handles, i + 1,
                        [ok |-> acc.ok /\ h[2] \notin acc.active,
                         active |-> acc.active \cup {h[2]}])
         ELSE IF h[1] = "exit"
         THEN Accounted(handles, i + 1,
                        [ok |-> acc.ok /\ h[2] \in acc.active,
                         active |-> acc.active \ {h[2]}])
         ELSE Accounted(handles, i + 1, acc)

\* C32: entry and exit actions are balanced.  On a consistent structure, with
\* the states entered and not left since being the state the machine is in
\* and the states above it before a call (none before init()): init() enters
\* the current leaf and the states above it; a handle_event call that returns
\* leaves and enters states so that those entered and not left are again the
\* current leaf and the states above it, never entering a state that has not
\* been left or leaving one that has not been entered; and exit() leaves them
\* all.
C32_EntryExitBalanced ==
    \A m \in Machines :
        (check_consistency(Structure) = "ok" /\ frame[m].pc = "idle")
        => LET before == [ok |-> TRUE, active |-> NamesToRoot(last[m].pre)]
               after == Accounted(captured_actions[m], 1, before)
           IN  /\ (last[m].op = "init" /\ last[m].result = "ok") =>
                     /\ last[m].pre = NoNode
                     /\ after.ok
                     /\ after.active = NamesToRoot(_current_state[m])
                     /\ _current_state[m] \in Leafs(Structure)
               /\ (Accepted(m) /\ last[m].result \in {"ok", "guard False"}) =>
                     /\ after.ok
                     /\ after.active = NamesToRoot(_current_state[m])
                     /\ _current_state[m] \in Leafs(Structure)
               /\ (last[m].op = "exit" /\ last[m].result = "ok") =>
                     /\ after.ok
                     /\ after.active = {}

\* a machine has taken a transition that left two states and entered two,
\* and is in another leaf
C32_Witness ==
    /\ Accepted("m1")
    /\ last["m1"].result = "ok"
    /\ check_consistency(Structure) = "ok"
    /\ _current_state["m1"] # last["m1"].pre
    /\ Len(SelectSeq(captured_actions["m1"], LAMBDA h : h[1] = "exit")) >= 2
    /\ Len(SelectSeq(captured_actions["m1"], LAMBDA h : h[1] = "entry")) >= 2
    /\ NamesToRoot(_current_state["m1"]) # NamesToRoot(last["m1"].pre)

\* C33: a builder call that fails leaves the Structure as it was: whenever
\* add_state or add_trans raises, the states mapping and the root are as
\* before the call, and so are the children, the initial child, the parent
\* and the transitions of every node there was.
C33_FailedCallChangesNothing ==
    [][(/\ structure_call'.op \in {"add_state", "add_trans"}
        /\ structure_call'.err # "ok")
       => /\ states' = states
          /\ root' = root
          /\ \A n \in DOMAIN nodes :
                /\ n \in DOMAIN nodes'
                /\ nodes'[n].children = nodes[n].children
                /\ nodes'[n].initial = nodes[n].initial
                /\ nodes'[n].parent = nodes[n].parent
                /\ nodes'[n].events = nodes[n].events
      ]_vars

\* the last handle_event call on m was ended by an exception that its guard
\* or one of its actions raised, or did not catch from a call it made on the
\* machine
EndedByCallback(m) ==
    /\ last[m].op = "handle_event"
    /\ frame[m].pc = "idle"
    /\ \/ last[m].result = "Exception"
       \/ /\ last[m].nested # <<>>
          /\ last[m].result = last[m].nested[3]
          /\ last[m].result # "ok"

\* C34: the re-entrancy flag is reset on every way out of a handle_event
\* call: when a guard or an action raises (also the ReentrantEventException
\* of a nested call that it does not catch), the flag is false once the
\* exception has left handle_event, and neither handle_event nor set_state
\* raises ReentrantEventException afterwards.
C34_FlagClearAfterException ==
    \A m \in Machines :
        EndedByCallback(m)
        => /\ ~_currently_handling_event[m]
           /\ HandleEventError(m) # "ReentrantEventException"
           /\ \A id \in DOMAIN states :
                 SetStateError(m, id) # "ReentrantEventException"

\* C35: _get_methodcallers and do_optimize are total on consistent
\* structures: for every state of a structure that passes check_consistency
\* and every event, _get_methodcallers returns a guard, a list and a target
\* that is a state of the structure, without raising, also for a
\* self-transition of the root and for a target above the current state; and
\* do_optimize returns.
C35_Total ==
    check_consistency(Structure) = "ok" =>
       /\ \A n \in StateNodes(Structure), event \in Events :
             LET r == _get_methodcallers(Structure, event, n)
             IN  /\ r.err = "ok"
                 /\ r.target_node \in StateNodes(Structure)
       /\ structure_call.op = "do_optimize" => structure_call.err = "ok"


\* C36: a handle_event call never modifies the shared Structure: the nodes
\* (children, initial, event mapping), the identifier mapping, the root, the
\* flag and the optimized table of every state, keys and values, are after the
\* call what they were before it, in either mode, for a handled, an unhandled
\* and a structure-unknown event.
C36_StructureUntouched ==
    [][(\E m \in Machines, event \in Events :
            \/ _handle_event_not_inititalized(m, event)
            \/ _handle_event_optimized(m, event)
            \/ _handle_event_normal(m, event))
       => /\ nodes' = nodes
          /\ states' = states
          /\ root' = root
          /\ is_optimized' = is_optimized
          /\ optimized' = optimized]_vars


\* the variables of the instance m
InstanceOf(m) ==
    <<_current_state[m], handle_event[m], _currently_handling_event[m],
      frame[m], captured_actions[m], init_called[m], exit_called[m], last[m]>>

\* C37: machines sharing one Structure are independent.  A step of a call on
\* one machine (init, exit, set_state, handle_event, the return of one of its
\* actions)
\* leaves every variable of the other machine as it was, whatever the other
\* machine is doing; and a handle_event on a machine that is not itself
\* handling an event is not rejected as re-entrant, also while an action of the
\* other machine is running.
C37_Independent ==
    [][\A m \in Machines :
          SharedMachineNext(m)
          => /\ \A o \in Machines \ {m} : InstanceOf(o)' = InstanceOf(o)
             /\ (/\ last'[m].op = "handle_event"
                 /\ last'[m] # last[m]
                 /\ frame[m].pc = "idle"
                 /\ ~_currently_handling_event[m])
                => last'[m].result # "ReentrantEventException"]_vars

\* both machines are in the middle of a handle_event, each at an action: one
\* of the two calls was made while an action of the other machine was running
C37_Witness ==
    /\ \A m \in Machines : frame[m].pc = "actions" /\ last[m].op = "handle_event"
    /\ _current_state["m1"] # _current_state["m2"]


\* C38: exit() called from inside an action during a dispatch leaves the
\* machine coherently exited: once the outer handle_event has returned, the
\* current state is none and handle_event raises NotInitializedException.
C38_ExitInsideAction ==
    \A m \in Machines :
        (/\ frame[m].pc = "idle"
         /\ last[m].op = "handle_event"
         /\ last[m].result = "ok"
         /\ last[m].nested = <<"exit", "-", "ok">>)
        => /\ _current_state[m] = NoNode
           /\ handle_event[m] = "_handle_event_not_inititalized"
           /\ HandleEventError(m) = "NotInitializedException"


\* C39: the two dispatch modes agree from every current state, leaf or
\* composite: a handle_event call that has returned, made in the state S (the
\* state set_state(S) leaves the machine in), has invoked the guard and the
\* actions that the walk from S computes, in that order, and ends in the
\* target of that walk (in S after a guard veto), through the table as through
\* the walk.
C39_ModesAgree ==
    \A m \in Machines :
        (/\ Accepted(m)
         /\ frame[m].pc = "idle"
         /\ last[m].pre # NoNode
         /\ last[m].result \in {"ok", "guard False"}
         /\ Resolved(m).err = "ok")
        => IF last[m].result = "guard False"
           THEN /\ captured_actions[m] = <<Resolved(m).guard>>
                /\ _current_state[m] = last[m].pre
           ELSE /\ captured_actions[m] = TraceOf(Resolved(m))
                /\ _current_state[m] = Resolved(m).target_node


\* C40: the optimized flag never outlives its tables: whenever is_optimized
\* is true, after any sequence of add_state, add_trans and do_optimize calls,
\* every leaf's table holds for every event defined in the structure the tuple
\* that _get_methodcallers computes at that moment.
C40_FlagImpliesFreshTables ==
    is_optimized =>
        \A L \in Leafs(Structure), E \in AllEvents(Structure) :
            _get_methodcallers(Structure, E, L).err = "ok"
            => /\ E \in DOMAIN optimized[L]
               /\ optimized[L][E] = OptimizedEntry(Structure, E, L)

====
